---- MODULE Spec2Model ----
(***************************************************************************)
(* A model of jax_triton.pallas: the lowering of a jaxpr to Triton IR      *)
(* (lowering.py) and the pallas primitives it lowers (primitives.py).      *)
(*                                                                         *)
(* The lowering builds IR through a builder.  The model keeps the builder  *)
(* as a record: the sequence of the operations emitted so far, each with   *)
(* its operands (positions in that sequence), its static attributes, its   *)
(* result type and the block it was inserted in.  A tl.tensor of the code  *)
(* is the position of the operation that produces it.  What an emitted     *)
(* operation computes is given by EvalIR, the value of every operation for *)
(* one program instance of the launched kernel.                            *)
(***************************************************************************)
EXTENDS Integers, Sequences, FiniteSets, TLC

\* ------------------------------------------------------------------
\* Bounds of the model
\* ------------------------------------------------------------------

\* Longest declared grid drawn by GridInit (besides the spec's example).
MaxGridRank == 5
\* Largest extent of an axis of a drawn grid.
MaxGridExtent == 2

\* Highest rank of an array indexed by AddrInit.
MaxRank == 2
\* Largest extent of an axis of such an array.
MaxExtent == 2

\* Largest literal operand of an equation of a drawn index map; the
\* smallest is 2.
MaxLiteral == 4
\* Most equations of a drawn straight-line kernel body.
MaxBodyEqns == 2

\* ------------------------------------------------------------------
\* Sequences and shapes
\* ------------------------------------------------------------------

RECURSIVE SeqProd(_)
SeqProd(s) == IF s = <<>> THEN 1 ELSE Head(s) * SeqProd(Tail(s))

RECURSIVE SeqSum(_)
SeqSum(s) == IF s = <<>> THEN 0 ELSE Head(s) + SeqSum(Tail(s))

RECURSIVE SeqMax(_)
SeqMax(s) ==
  IF s = <<>> THEN 0
  ELSE LET m == SeqMax(Tail(s)) IN IF Head(s) > m THEN Head(s) ELSE m

\* F applied to the value of v: v is evaluated once, however often F uses
\* its argument.
Bind(v, F(_)) == CHOOSE r \in {F(x) : x \in {v}} : TRUE

\* All sequences over S of length lo..hi.
SeqsOf(S, lo, hi) == UNION {[1..n -> S] : n \in lo..hi}

\* The positions of a tensor of the given shape; a scalar has the one
\* position <<>>.
IndexSet(shape) ==
  {idx \in [1..Len(shape) -> 0..(SeqMax(shape) - 1)] :
     \A k \in 1..Len(shape) : idx[k] < shape[k]}

\* ------------------------------------------------------------------
\* The IR builder (tl_ir.builder) and tl.tensor
\* ------------------------------------------------------------------

NoErr == ""

\* The type of a tl.tensor: element kind and block shape; the shape <<>>
\* is a scalar (type.is_block() is false).
ScalarTy(k) == [k |-> k, shape |-> <<>>]
BlockTy(k, shape) == [k |-> k, shape |-> shape]
is_block(ty) == ty.shape # <<>>

\* tl_ir.builder(ir_context): nothing emitted, insertion point in the
\* entry block (block 1).
NewBuilder == [ir |-> <<>>, blk |-> 1, nblk |-> 1, err |-> NoErr, merged |-> <<>>]

\* One emitted operation.
Op(b, name, args, attr, ty) ==
  [op |-> name, args |-> args, attr |-> attr, ty |-> ty, blk |-> b.blk]

\* The builder after emitting an operation at the insertion point; a
\* builder whose lowering has raised emits nothing more.
Emit(b, name, args, attr, ty) ==
  IF b.err # NoErr THEN b
  ELSE [b EXCEPT !.ir = Append(@, Op(b, name, args, attr, ty))]

\* The tl.tensor produced by the operation emitted last.
Last(b) == Len(b.ir)

Raise(b, e) == IF b.err # NoErr THEN b ELSE [b EXCEPT !.err = e]

TyOf(b, v) == b.ir[v].ty

\* tl.core._to_tensor(python int, builder): an int32 constant.
to_tensor(b, n) == Emit(b, "const", <<>>, <<n>>, ScalarTy("i32"))

\* tl.program_id(axis, _builder=builder)
program_id(b, axis) == Emit(b, "program_id", <<>>, <<axis>>, ScalarTy("i32"))

\* Triton's broadcasting of the operands of a binary operation: a scalar
\* is splat to the other operand's shape, blocks must have the same rank
\* and, axis by axis, equal extents or extent 1.
Compatible(s1, s2) ==
  \/ s1 = <<>>
  \/ s2 = <<>>
  \/ /\ Len(s1) = Len(s2)
     /\ \A k \in 1..Len(s1) : s1[k] = s2[k] \/ s1[k] = 1 \/ s2[k] = 1

BroadcastShape(s1, s2) ==
  IF s1 = <<>> THEN s2
  ELSE IF s2 = <<>> THEN s1
  ELSE [k \in 1..Len(s1) |-> IF s1[k] = 1 THEN s2[k] ELSE s1[k]]

\* x.__add__(y), x.__mul__(y), x.__floordiv__(y), x.__mod__(y) on two
\* tl.tensors; adding to a pointer gives a pointer.
BinOp(b, name, x, y) ==
  IF b.err # NoErr THEN b
  ELSE IF ~Compatible(TyOf(b, x).shape, TyOf(b, y).shape)
    THEN Raise(b, "ShapeMismatch")
  ELSE Emit(b, name, <<x, y>>, <<>>,
            [k |-> TyOf(b, x).k,
             shape |-> BroadcastShape(TyOf(b, x).shape, TyOf(b, y).shape)])

\* The same with a Python int as the right operand: the int is made a
\* constant first.
BinOpInt(b, name, x, n) ==
  Bind(to_tensor(b, n), LAMBDA b1 : BinOp(b1, name, x, Last(b1)))

\* A value an emitter hands back together with the builder.
Ret(b, v) == [b |-> b, v |-> v]

\* tl.arange(start, end): the block [start, end) of int32.
arange(b, start, end) ==
  Emit(b, "arange", <<>>, <<start, end>>, BlockTy("i32", <<end - start>>))

\* Position `axis` (0-based) inserted into / removed from a sequence.
InsertAt(s, axis, x) ==
  [k \in 1..(Len(s) + 1) |->
     IF k <= axis THEN s[k] ELSE IF k = axis + 1 THEN x ELSE s[k - 1]]
RemoveAt(s, axis) ==
  [k \in 1..(Len(s) - 1) |-> IF k <= axis THEN s[k] ELSE s[k + 1]]

\* tl.semantic.expand_dims(x, axis, builder): an axis of extent 1 inserted.
expand_dims(b, x, axis) ==
  IF b.err # NoErr THEN b
  ELSE Emit(b, "expand_dims", <<x>>, <<axis>>,
            BlockTy(TyOf(b, x).k, InsertAt(TyOf(b, x).shape, axis, 1)))

\* expand_dims(x, 0) n times.
RECURSIVE ExpandLeft(_, _, _)
ExpandLeft(b, x, n) ==
  IF n = 0 \/ b.err # NoErr THEN Ret(b, x)
  ELSE Bind(expand_dims(b, x, 0), LAMBDA b1 : ExpandLeft(b1, Last(b1), n - 1))

\* expand_dims(x, len(x.shape)) n times.
RECURSIVE ExpandRight(_, _, _)
ExpandRight(b, x, n) ==
  IF n = 0 \/ b.err # NoErr THEN Ret(b, x)
  ELSE Bind(expand_dims(b, x, Len(TyOf(b, x).shape)),
            LAMBDA b1 : ExpandRight(b1, Last(b1), n - 1))

\* tl.broadcast_to(x, shape): a scalar is splat; a block must have the rank
\* of shape and, axis by axis, the extent of shape or 1; a block that has
\* the shape already is handed back as it is.
broadcast_to(b, x, shape) ==
  LET src == TyOf(b, x).shape
  IN IF b.err # NoErr THEN Ret(b, x)
     ELSE IF src = <<>>
       THEN LET b1 == Emit(b, "broadcast", <<x>>, shape, BlockTy(TyOf(b, x).k, shape))
            IN Ret(b1, Last(b1))
     ELSE IF Len(src) # Len(shape) THEN Ret(Raise(b, "ShapeMismatch"), x)
     ELSE IF src = shape THEN Ret(b, x)
     ELSE IF \E k \in 1..Len(shape) : src[k] # shape[k] /\ src[k] # 1
       THEN Ret(Raise(b, "ShapeMismatch"), x)
     ELSE LET b1 == Emit(b, "broadcast", <<x>>, shape, BlockTy(TyOf(b, x).k, shape))
          IN Ret(b1, Last(b1))

\* ------------------------------------------------------------------
\* What the emitted operations compute, for one program instance
\* ------------------------------------------------------------------

\* The position of an operand of shape s that pairs with position idx of
\* the broadcast result.
Proj(idx, s) ==
  IF s = <<>> THEN <<>>
  ELSE [k \in 1..Len(s) |-> IF s[k] = 1 THEN 0 ELSE idx[k]]

Arith(name, x, y) ==
  CASE name = "add" -> x + y
    [] name = "sub" -> x - y
    [] name = "mul" -> x * y
    [] name = "floordiv" -> x \div y
    [] name = "mod" -> x % y
    [] OTHER -> 0

\* The row-major strides of a shape: the stride of an axis is the product
\* of the extents of the axes after it.
RowMajorStride(shape, k) == SeqProd(SubSeq(shape, k + 1, Len(shape)))

\* The row-major rank of a position among the positions of a shape.
FlatIndex(idx, shape) ==
  SeqSum([k \in 1..Len(shape) |-> idx[k] * RowMajorStride(shape, k)])

\* The value of operation n given the values of the earlier ones: a
\* function from the positions of its shape to integers.  pid is the
\* physical program instance, one coordinate per launch axis.
EvalOp(ir, n, vals, pid) ==
  LET o == ir[n]
      operand(j, idx) == vals[o.args[j]][Proj(idx, ir[o.args[j]].ty.shape)]
  IN CASE o.op = "const" -> [idx \in IndexSet(o.ty.shape) |-> o.attr[1]]
       [] o.op = "program_id" ->
            [idx \in IndexSet(o.ty.shape) |-> pid[o.attr[1] + 1]]
       [] o.op \in {"add", "sub", "mul", "floordiv", "mod"} ->
            [idx \in IndexSet(o.ty.shape) |->
               Arith(o.op, operand(1, idx), operand(2, idx))]
       [] o.op \in {"arg", "data"} ->
            [idx \in IndexSet(o.ty.shape) |-> o.attr[FlatIndex(idx, o.ty.shape) + 1]]
       [] o.op = "arange" ->
            [idx \in IndexSet(o.ty.shape) |-> o.attr[1] + idx[1]]
       [] o.op = "expand_dims" ->
            [idx \in IndexSet(o.ty.shape) |-> vals[o.args[1]][RemoveAt(idx, o.attr[1])]]
       [] o.op = "broadcast" ->
            [idx \in IndexSet(o.ty.shape) |-> operand(1, idx)]
       [] OTHER -> [idx \in IndexSet(o.ty.shape) |-> 0]

RECURSIVE EvalPrefix(_, _, _)
EvalPrefix(ir, n, pid) ==
  IF n = 0 THEN <<>>
  ELSE Bind(EvalPrefix(ir, n - 1, pid),
            LAMBDA vals : Append(vals, EvalOp(ir, n, vals, pid)))

\* The value of every emitted operation.
EvalIR(ir, pid) == EvalPrefix(ir, Len(ir), pid)

\* The value of a scalar tl.tensor.
ScalarVal(vals, v) == vals[v][<<>>]

\* ------------------------------------------------------------------
\* _process_grid_to_3d_grid
\* ------------------------------------------------------------------

\* [tl.program_id(axis=i) for i in range(n)]: n native program ids,
\* emitted in axis order.
RECURSIVE NativeProgramIds(_, _)
NativeProgramIds(b, n) ==
  IF n = 0 THEN b
  ELSE Bind(NativeProgramIds(b, n - 1), LAMBDA b1 : program_id(b1, n - 1))

\* GridLoop with grid0 never divided: every coordinate is the flattened
\* coordinate mod the extent of its axis.
RECURSIVE GridLoop_Undivided(_, _, _, _, _)
GridLoop_Undivided(b, grid_prefix, i, grid0, out_indices) ==
  IF i = 0 THEN [b |-> b, out_indices |-> out_indices]
  ELSE Bind(BinOpInt(b, "mod", grid0, grid_prefix[i]), LAMBDA b2 :
         GridLoop_Undivided(b2, grid_prefix, i - 1, grid0,
                            [out_indices EXCEPT ![i] = Last(b2)]))

\* GridLoop walking grid_prefix first axis first: the reversed() of the
\* code's loop dropped.
RECURSIVE GridLoop_Forward(_, _, _, _, _)
GridLoop_Forward(b, grid_prefix, i, grid0, out_indices) ==
  IF i = 0 THEN [b |-> b, out_indices |-> out_indices]
  ELSE LET j == Len(grid_prefix) - i + 1
           s == grid_prefix[j]
       IN Bind(BinOpInt(b, "floordiv", grid0, s), LAMBDA b1 :
          Bind(BinOpInt(b1, "mod", grid0, s), LAMBDA b2 :
            GridLoop_Forward(b2, grid_prefix, i - 1, Last(b1),
                             [out_indices EXCEPT ![j] = Last(b2)])))

\* The loop of _process_grid_to_3d_grid over reversed(enumerate(grid_prefix)),
\* from axis i (1-based) down to the first: out_indices[i] is grid0 mod the
\* axis's extent, and grid0 goes on as grid0 floor-divided by it.
RECURSIVE GridLoop(_, _, _, _, _)
GridLoop(b, grid_prefix, i, grid0, out_indices) ==
  IF i = 0 THEN [b |-> b, out_indices |-> out_indices]
  ELSE LET s == grid_prefix[i]
       IN Bind(BinOpInt(b, "floordiv", grid0, s), LAMBDA b1 :
          Bind(BinOpInt(b1, "mod", grid0, s), LAMBDA b2 :
            GridLoop(b2, grid_prefix, i - 1, Last(b1),
                     [out_indices EXCEPT ![i] = Last(b2)])))

\* _process_grid_to_3d_grid with every grid taken as it is declared: the
\* flattening of the leading axes left out.
_process_grid_to_3d_grid_Unflattened(b, grid) ==
  [b |-> NativeProgramIds(b, Len(grid)), new_grid |-> grid,
   program_ids |-> [i \in 1..Len(grid) |-> Len(b.ir) + i]]

\* _process_grid_to_3d_grid(builder, grid_spec): the launch grid and the
\* tl.tensors holding the coordinate of each axis of the declared grid.
_process_grid_to_3d_grid(b, grid) ==
  IF Len(grid) <= 3
    THEN LET b1 == NativeProgramIds(b, Len(grid))
         IN [b |-> b1, new_grid |-> grid,
             program_ids |-> [i \in 1..Len(grid) |-> Len(b.ir) + i]]
  ELSE LET grid_prefix == SubSeq(grid, 1, Len(grid) - 2)
           grid_suffix == SubSeq(grid, Len(grid) - 1, Len(grid))
           total_axis_size == SeqProd(grid_prefix)
           new_grid == <<total_axis_size>> \o grid_suffix
       IN Bind(program_id(b, 0), LAMBDA b0 :
          Bind(GridLoop(b0, grid_prefix, Len(grid_prefix), Last(b0),
                        [i \in 1..Len(grid_prefix) |-> 0]), LAMBDA loop :
          Bind(program_id(loop.b, 1), LAMBDA b1 :
          Bind(program_id(b1, 2), LAMBDA b2 :
            LET out_indices == loop.out_indices \o <<Last(b1), Last(b2)>>
            IN IF Len(out_indices) # Len(grid)
                 THEN [b |-> Raise(b2, "AssertionError"), new_grid |-> new_grid,
                       program_ids |-> out_indices]
               ELSE [b |-> b2, new_grid |-> new_grid,
                     program_ids |-> out_indices]))))

\* ------------------------------------------------------------------
\* _compute_pointers_from_indices
\* ------------------------------------------------------------------

\* pallas_core.mapped, the block extent of a collapsed axis.
Mapped == 0
\* None where a tl.tensor may stand (tl.tensors are positions from 1).
None == 0

\* primitives.Slice(start, size); the start is a Python int (static) or a
\* tl.tensor (dynamic).
Slice(start, size) == [kind |-> "Slice", dyn |-> FALSE, start |-> start, size |-> size]
DynSlice(start, size) == [kind |-> "Slice", dyn |-> TRUE, start |-> start, size |-> size]
\* A Python slice; only slice(None) is written with start and size None.
PySlice(start, size) == [kind |-> "slice", dyn |-> FALSE, start |-> start, size |-> size]
\* An integer index: a scalar tl.tensor or a block of int_indexer_shape.
IntIndex(v) == [kind |-> "int", dyn |-> FALSE, start |-> v, size |-> 0]

\* primitives.NDIndexer
NDIndexer(indices, shape, int_indexer_shape) ==
  [indices |-> indices, shape |-> shape, int_indexer_shape |-> int_indexer_shape]

\* Slice.from_slice(slc, size) for slc = slice(None): the whole axis.
from_slice(size) == Slice(0, size)

\* jt.strides_from_shape(shape): the element strides of a row-major array,
\* each the number of elements of one step along the axis.
RECURSIVE StridesFrom(_, _)
StridesFrom(shape, size) ==
  IF shape = <<>> THEN <<>>
  ELSE <<size \div Head(shape)>> \o StridesFrom(Tail(shape), size \div Head(shape))
strides_from_shape(shape) == StridesFrom(shape, SeqProd(shape))

\* The members of a sequence that satisfy / are picked by a flag sequence.
RECURSIVE SelectSizes(_)
SelectSizes(indices) ==
  IF indices = <<>> THEN <<>>
  ELSE (IF Head(indices).kind = "Slice" THEN <<Head(indices).size>> ELSE <<>>)
         \o SelectSizes(Tail(indices))

\* get_indexer_shape with the sizes of the Slices put first.
get_indexer_shape_SlicesFirst(nd_indexer) ==
  SelectSizes(nd_indexer.indices) \o nd_indexer.int_indexer_shape

\* NDIndexer.get_indexer_shape: the shape of the integer indexers followed
\* by the size of every Slice, in order.
get_indexer_shape(nd_indexer) ==
  nd_indexer.int_indexer_shape \o SelectSizes(nd_indexer.indices)

\* A BlockInfo that records the shape of the block where the shape of the
\* whole array belongs.
BlockInfo_BlockAsFull(full_shape, start_indices, block_shape) ==
  [none |-> FALSE,
   full_shape |-> [k \in 1..Len(block_shape) |->
                     IF block_shape[k] = Mapped THEN 1 ELSE block_shape[k]],
   start_indices |-> start_indices, block_shape |-> block_shape]

\* BlockInfo(full_shape_dtype, start_indices, block_shape); NoBlockInfo is
\* the None of an operand without a block mapping.
BlockInfo(full_shape, start_indices, block_shape) ==
  [none |-> FALSE, full_shape |-> full_shape, start_indices |-> start_indices,
   block_shape |-> block_shape]
NoBlockInfo ==
  [none |-> TRUE, full_shape |-> <<>>, start_indices |-> <<>>, block_shape |-> <<>>]

\* A count of the collapsed axes that finds none.
CountMapped_None(block_shape) == 0

CountMapped(block_shape) == Cardinality({k \in 1..Len(block_shape) : block_shape[k] = Mapped})

Ones(n) == [k \in 1..n |-> 1]

\* SliceExpand with the two sides exchanged.
SliceExpand_Swapped(n_int, n_other, other_shape_idx) ==
  [left |-> n_other - other_shape_idx - 1, right |-> n_int + other_shape_idx]

\* num_left_expand_dims and num_right_expand_dims of a slice: the axes of
\* the integer indexers and of the slices before it go left, the axes of
\* the slices after it go right.
SliceExpand(n_int, n_other, other_shape_idx) ==
  [left |-> n_int + other_shape_idx, right |-> n_other - other_shape_idx - 1]

\* One pass of the loop of _compute_pointers_from_indices, for axis k of the
\* full shape.  st holds the builder, the position of indexer_iter, the
\* other_shape_idx and the bcast_indices so far; c holds what the loop
\* reads and does not change.
AxisStep(st, k, c) ==
  LET is_mapped == c.block_shape[k] = Mapped
      n_int == Len(c.int_indexer_shape)
      n_other == Len(c.other_shape)
      n_all == Len(c.indexer_shape)
      \* the branch on the kind of index: the offsets along this axis, and
      \* how many axes to add left and right of them
      Branch(b0, index) ==
        IF index.kind = "Slice" THEN
          LET e == SliceExpand(n_int, n_other, st.osi)
          IN Bind(IF ~index.dyn
                    THEN arange(b0, index.start, index.start + index.size)
                  ELSE Bind(arange(b0, 0, index.size),
                            LAMBDA ba : BinOp(ba, "add", index.start, Last(ba))),
                  LAMBDA b1 : [b |-> b1, off |-> Last(b1), left |-> e.left,
                               right |-> e.right, osi |-> st.osi + 1])
        ELSE IF index.kind = "slice" THEN
          IF index # PySlice(None, None)
            THEN [b |-> Raise(b0, "NotImplementedError"), off |-> None,
                  left |-> 0, right |-> 0, osi |-> st.osi]
          ELSE LET e == SliceExpand(n_int, n_other, st.osi)
               IN Bind(arange(b0, 0, c.block_shape[k]),
                       LAMBDA b1 : [b |-> b1, off |-> Last(b1), left |-> e.left,
                                    right |-> e.right, osi |-> st.osi + 1])
        ELSE
          [b |-> b0, off |-> index.start,
           left |-> IF ~is_block(TyOf(b0, index.start))
                      THEN (IF n_all - 1 > 0 THEN n_all - 1 ELSE 0) ELSE 0,
           right |-> n_other, osi |-> st.osi]
      \* broadcastable axes added around the offsets
      Expand(br) ==
        IF br.b.err # NoErr THEN Ret(br.b, br.off)
        ELSE IF ~is_block(TyOf(br.b, br.off)) /\ c.indexer_shape # <<>>
          THEN broadcast_to(br.b, br.off, Ones(n_all))
        ELSE Bind(ExpandLeft(br.b, br.off, br.left),
                  LAMBDA l : ExpandRight(l.b, l.v, br.right))
      \* the start offset of the block, if any
      AddStart(ex) ==
        IF c.start_index_offsets[k] # None
          THEN Bind(BinOp(ex.b, "add", ex.v, c.start_index_offsets[k]),
                    LAMBDA b3 : Ret(b3, Last(b3)))
        ELSE ex
      \* times the stride of the axis
      Scale(o) ==
        Bind(to_tensor(o.b, c.strides[k]),
             LAMBDA b4 : BinOp(b4, "mul", o.v, Last(b4)))
  IN Bind(IF is_mapped THEN to_tensor(st.b, 0) ELSE st.b, LAMBDA b0 :
     Bind(Branch(b0, IF is_mapped THEN IntIndex(Last(b0)) ELSE c.indices[st.it]),
          LAMBDA br :
     Bind(Expand(br), LAMBDA ex :
     Bind(AddStart(ex), LAMBDA o :
     Bind(Scale(o), LAMBDA b5 :
       [b |-> b5, it |-> IF is_mapped THEN st.it ELSE st.it + 1,
        osi |-> br.osi, bcast |-> Append(st.bcast, Last(b5))])))))

RECURSIVE AxisLoop(_, _, _)
AxisLoop(st, k, c) ==
  IF k > Len(c.strides) \/ st.b.err # NoErr THEN st
  ELSE Bind(AxisStep(st, k, c), LAMBDA st1 : AxisLoop(st1, k + 1, c))

\* Every per-axis term broadcast to the indexer shape unless it has it.
RECURSIVE BroadcastAll(_, _, _, _)
BroadcastAll(b, bcast, i, indexer_shape) ==
  IF i > Len(bcast) \/ b.err # NoErr THEN Ret(b, bcast)
  ELSE IF TyOf(b, bcast[i]).shape # indexer_shape
    THEN Bind(broadcast_to(b, bcast[i], indexer_shape), LAMBDA r :
           BroadcastAll(r.b, [bcast EXCEPT ![i] = r.v], i + 1, indexer_shape))
  ELSE BroadcastAll(b, bcast, i + 1, indexer_shape)

\* ptr = root_ptr; for bcast_idx in bcast_indices: ptr = ptr + bcast_idx
RECURSIVE AddAll(_, _, _, _)
AddAll(b, ptr, bcast, i) ==
  IF i > Len(bcast) \/ b.err # NoErr THEN Ret(b, ptr)
  ELSE Bind(BinOp(b, "add", ptr, bcast[i]),
            LAMBDA b1 : AddAll(b1, Last(b1), bcast, i + 1))

\* _compute_pointers_from_indices(root_ptr, block_info, nd_indexer,
\* array_shape, builder): the builder after it and the tl.tensor of the
\* pointers.
_compute_pointers_from_indices(b, root_ptr, block_info, nd_indexer, array_shape) ==
  LET full_shape == IF block_info.none THEN array_shape ELSE block_info.full_shape
      num_mapped_dims == IF block_info.none THEN 0 ELSE CountMapped(block_info.block_shape)
      block_shape == IF block_info.none THEN array_shape ELSE block_info.block_shape
      indexer_shape == get_indexer_shape(nd_indexer)
      int_indexer_shape == nd_indexer.int_indexer_shape
      indices == nd_indexer.indices
      start_index_offsets ==
        IF block_info.none THEN [k \in 1..Len(indices) |-> None]
        ELSE block_info.start_indices
      c == [strides |-> strides_from_shape(full_shape),
            block_shape |-> block_shape,
            start_index_offsets |-> start_index_offsets,
            indices |-> indices,
            indexer_shape |-> indexer_shape,
            int_indexer_shape |-> int_indexer_shape,
            other_shape |-> SubSeq(indexer_shape, Len(int_indexer_shape) + 1,
                                   Len(indexer_shape))]
  IN IF b.err # NoErr THEN Ret(b, root_ptr)
     ELSE IF \/ Len(indices) + num_mapped_dims # Len(full_shape)
             \/ Len(start_index_offsets) # Len(full_shape)
             \/ Len(block_shape) # Len(full_shape)
       THEN Ret(Raise(b, "AssertionError"), root_ptr)
     ELSE Bind(AxisLoop([b |-> b, it |-> 1, osi |-> 0, bcast |-> <<>>], 1, c),
               LAMBDA loop :
          Bind(BroadcastAll(loop.b, loop.bcast, 1, indexer_shape), LAMBDA bc :
            AddAll(bc.b, root_ptr, bc.v, 1)))

\* ------------------------------------------------------------------
\* Jaxprs
\* ------------------------------------------------------------------

\* jax_core.Literal and jax_core.Var; a Var carries its aval, of which the
\* model keeps the shape and whether it is a ShapedArrayRef.
Literal(val) == [lit |-> TRUE, v |-> val, ref |-> FALSE, shape |-> <<>>]
Var(id) == [lit |-> FALSE, v |-> id, ref |-> FALSE, shape |-> <<>>]
ArrayVar(id, shape) == [lit |-> FALSE, v |-> id, ref |-> FALSE, shape |-> shape]
RefVar(id, shape) == [lit |-> FALSE, v |-> id, ref |-> TRUE, shape |-> shape]

\* jax_core.Jaxpr
Jaxpr(invars, eqns, outvars) == [invars |-> invars, eqns |-> eqns, outvars |-> outvars]
NoJaxpr == Jaxpr(<<>>, <<>>, <<>>)

\* The parameters of an equation that some rule reads.
NoParams ==
  [jaxpr |-> NoJaxpr, nsteps |-> 0, reverse |-> FALSE, unroll |-> 1,
   indexed_dims |-> <<>>, axis |-> 0, cond_nconsts |-> 0, cond_jaxpr |-> NoJaxpr,
   body_nconsts |-> 0]
ForParams(jaxpr, nsteps, reverse, unroll) ==
  [NoParams EXCEPT !.jaxpr = jaxpr, !.nsteps = nsteps, !.reverse = reverse,
                   !.unroll = unroll]
StateParams(indexed_dims) == [NoParams EXCEPT !.indexed_dims = indexed_dims]
\* The parameters of program_id, of xla_call (call_jaxpr) and of while
\* (cond_nconsts, cond_jaxpr, body_nconsts, body_jaxpr).
AxisParams(axis) == [NoParams EXCEPT !.axis = axis]
CallParams(call_jaxpr) == [NoParams EXCEPT !.jaxpr = call_jaxpr]
WhileParams(cond_nconsts, cond_jaxpr, body_nconsts, body_jaxpr) ==
  [NoParams EXCEPT !.cond_nconsts = cond_nconsts, !.cond_jaxpr = cond_jaxpr,
                   !.body_nconsts = body_nconsts, !.jaxpr = body_jaxpr]

\* jax_core.JaxprEqn
Eqn(prim, invars, outvars, params) ==
  [prim |-> prim, invars |-> invars, outvars |-> outvars, params |-> params]

\* The keys of triton_lowering_rules: the primitives with a lowering rule.
triton_lowering_rules ==
  {"program_id", "atomic_rmw", "max_contiguous", "multiple_of", "exp", "log",
   "log1p", "logistic", "sin", "cos", "mul", "div", "iota", "add", "add_any",
   "integer_pow", "tanh", "min", "convert_element_type", "max", "ge",
   "select_n", "rem", "sub", "lt", "sqrt", "neg", "broadcast_in_dim",
   "squeeze", "get", "masked_load", "swap", "masked_swap", "addupdate",
   "transpose", "dot_general", "reduce_max", "reduce_min", "reduce_sum",
   "argmax", "argmin", "xla_call", "for", "while"}

\* primitive.multiple_results
multiple_results(prim) == prim \in {"for", "while", "xla_call", "addupdate"}

\* The effect of an equation on the Ref it names first: state.ReadEffect,
\* WriteEffect or AccumEffect.
EffectOf(prim) ==
  CASE prim = "get" -> "read"
    [] prim = "swap" -> "write"
    [] prim = "addupdate" -> "accum"
    [] OTHER -> "none"

\* jaxpr.effects restricted to one Ref: the effects of the equations of the
\* body that name the Ref (state.get_ref_state_effects).
RECURSIVE RefEffects(_, _)
RefEffects(jaxpr, ref) ==
  UNION {LET e == jaxpr.eqns[n]
         IN IF EffectOf(e.prim) # "none"
              THEN IF e.invars[1].v = ref /\ ~e.invars[1].lit
                     THEN {EffectOf(e.prim)} ELSE {}
            ELSE IF e.prim = "for"
              THEN UNION {RefEffects(e.params.jaxpr, e.params.jaxpr.invars[j + 1].v) :
                            j \in {i \in 1..Len(e.invars) :
                                     ~e.invars[i].lit /\ e.invars[i].v = ref}}
            ELSE {}
         : n \in 1..Len(jaxpr.eqns)}

\* state.get_ref_state_effects(in_avals, jaxpr.effects) for the Refs
\* jaxpr.invars[1:] of a for body.
get_ref_state_effects(jaxpr) ==
  [k \in 1..(Len(jaxpr.invars) - 1) |-> RefEffects(jaxpr, jaxpr.invars[k + 1].v)]

\* _is_read_only(ref_effects)
_is_read_only(ref_effects) ==
  IF Cardinality(ref_effects) = 0 THEN TRUE
  ELSE IF Cardinality(ref_effects) > 1 THEN FALSE
  ELSE ref_effects = {"read"}

\* util.partition_list(bs, l): the members of l whose flag is false, and
\* those whose flag is true.
RECURSIVE Pick(_, _, _)
Pick(bs, l, flag) ==
  IF l = <<>> THEN <<>>
  ELSE (IF Head(bs) = flag THEN <<Head(l)>> ELSE <<>>) \o Pick(Tail(bs), Tail(l), flag)
partition_list(bs, l) == <<Pick(bs, l, FALSE), Pick(bs, l, TRUE)>>

\* merge_lists with the flags ignored: the members of l1, then those of l0.
merge_lists_Concatenated(bs, l0, l1) == l1 \o l0

\* util.merge_lists(bs, l0, l1): at each flag the next member of l1 if it
\* is true, of l0 if not.
RECURSIVE merge_lists(_, _, _)
merge_lists(bs, l0, l1) ==
  IF bs = <<>> THEN <<>>
  ELSE IF Head(bs)
    THEN <<Head(l1)>> \o merge_lists(Tail(bs), l0, Tail(l1))
  ELSE <<Head(l0)>> \o merge_lists(Tail(bs), Tail(l0), l1)

CountTrue(bs) == Cardinality({k \in 1..Len(bs) : bs[k]})

\* An atom with the variables that state discharge replaced put in.
Subst(sub, a) == IF ~a.lit /\ a.v \in DOMAIN sub THEN sub[a.v] ELSE a

\* A function with one more (or one changed) point.
With(f, x, y) == [z \in DOMAIN f \cup {x} |-> IF z = x THEN y ELSE f[z]]


\* discharge.discharge_state over the equations of a for body from
\* equation n on.  d holds the equations made so far, the current value of
\* every discharged Ref (cur) and the values standing for the results of
\* the equations that are gone (sub).  A get of a discharged Ref is its
\* current value, a swap replaces it and yields the old one, an addupdate
\* adds to it (the sum is a new variable, numbered from 50 on); equations
\* on other Refs and other primitives stay.
RECURSIVE DischargeEqns(_, _, _)
DischargeEqns(jaxpr, n, d) ==
  IF n > Len(jaxpr.eqns) THEN d
  ELSE LET e == jaxpr.eqns[n]
           ins == [k \in 1..Len(e.invars) |-> Subst(d.sub, e.invars[k])]
           r == IF e.invars = <<>> THEN 0 ELSE e.invars[1].v
           discharged == EffectOf(e.prim) # "none" /\ r \in DOMAIN d.cur
       IN IF ~discharged
            THEN DischargeEqns(jaxpr, n + 1,
                   [d EXCEPT !.eqns = Append(@, [e EXCEPT !.invars = ins])])
          ELSE IF e.prim = "get"
            THEN DischargeEqns(jaxpr, n + 1,
                   [d EXCEPT !.sub = With(@, e.outvars[1].v, d.cur[r])])
          ELSE IF e.prim = "swap"
            THEN DischargeEqns(jaxpr, n + 1,
                   [d EXCEPT !.sub = With(@, e.outvars[1].v, d.cur[r]),
                             !.cur = With(@, r, ins[2])])
          ELSE LET t == Var(50 + n)
               IN DischargeEqns(jaxpr, n + 1,
                    [d EXCEPT !.eqns = Append(@, Eqn("add", <<d.cur[r], ins[2]>>,
                                                     <<t>>, NoParams)),
                              !.cur = With(@, r, t)])

\* discharge.discharge_state(jaxpr, (), should_discharge=flags): the Refs
\* among jaxpr.invars whose flag is set become values, and the final value
\* of each is an output, in the order of the invars.
discharge_state(jaxpr, flags) ==
  LET refs == {k \in 1..Len(jaxpr.invars) : flags[k] /\ jaxpr.invars[k].ref}
      invars == [k \in 1..Len(jaxpr.invars) |->
                   IF k \in refs THEN [jaxpr.invars[k] EXCEPT !.ref = FALSE]
                   ELSE jaxpr.invars[k]]
      d0 == [eqns |-> <<>>,
             cur |-> [id \in {jaxpr.invars[k].v : k \in refs} |->
                        [(CHOOSE a \in {jaxpr.invars[k] : k \in refs} : a.v = id)
                           EXCEPT !.ref = FALSE]],
             sub |-> [id \in {} |-> Var(0)]]
  IN Bind(DischargeEqns(jaxpr, 1, d0), LAMBDA d :
       Jaxpr(invars, d.eqns,
             jaxpr.outvars \o
               Pick([k \in 1..Len(jaxpr.invars) |-> k \in refs],
                    [k \in 1..Len(jaxpr.invars) |->
                       IF k \in refs THEN d.cur[jaxpr.invars[k].v]
                       ELSE jaxpr.invars[k]],
                    TRUE)))

\* ------------------------------------------------------------------
\* The builder calls of the rules and of the kernel builder
\* ------------------------------------------------------------------

\* builder.create_to_index(handle)
create_to_index(b, v) == Emit(b, "to_index", <<v>>, <<>>, ScalarTy("index"))

\* builder.create_for_op(lower_bound, upper_bound, step, init_args)
create_for_op(b, lb, ub, step, init_args) ==
  Emit(b, "for", <<lb, ub, step>> \o init_args, <<>>, ScalarTy("none"))

\* builder.create_block(): a new block, the insertion point unchanged; the
\* new block is b.nblk of the result.
create_block(b) == IF b.err # NoErr THEN b ELSE [b EXCEPT !.nblk = @ + 1]

\* builder.set_insertion_point_to_start(block) of an empty block and
\* builder.set_insertion_point_to_end(block).
set_insertion_point(b, blk) == IF b.err # NoErr THEN b ELSE [b EXCEPT !.blk = blk]

\* for_op.get_induction_var(), for_op.get_body(0).arg(i + 1) and
\* for_op.get_result(i): values that no emitted operation produces; the
\* model lists them with the operations so that an operand can name them.
Handles == {"arg", "data", "induction_var", "block_arg", "for_result"}
induction_var(b, for_op) == Emit(b, "induction_var", <<for_op>>, <<>>, ScalarTy("index"))
block_arg(b, for_op, i, ty) == Emit(b, "block_arg", <<for_op>>, <<i>>, ty)
for_result(b, for_op, i, ty) == Emit(b, "for_result", <<for_op>>, <<i>>, ty)

\* builder.create_index_to_si(handle)
create_index_to_si(b, v) == Emit(b, "index_to_si", <<v>>, <<>>, ScalarTy("i32"))

\* builder.create_yield_op(handles)
create_yield_op(b, vals) == Emit(b, "yield", vals, <<>>, ScalarTy("none"))

\* loop_block.merge_block_before(for_op.get_body(0)): the operations of
\* the block become the body of the loop.
merge_block_before(b, blk, for_op) ==
  IF b.err # NoErr THEN b
  ELSE [b EXCEPT !.merged = Append(@, [blk |-> blk, for_op |-> for_op])]

\* The return terminator emitted twice.
ret_Twice(b) ==
  Emit(Emit(b, "ret", <<>>, <<>>, ScalarTy("none")), "ret", <<>>, <<>>, ScalarTy("none"))

\* builder.ret([])
ret(b) == Emit(b, "ret", <<>>, <<>>, ScalarTy("none"))

\* The operations emitted, without the values no operation produces.
RECURSIVE Emitted(_)
Emitted(ir) ==
  IF ir = <<>> THEN <<>>
  ELSE (IF Head(ir).op \in Handles THEN <<>> ELSE <<Head(ir)>>) \o Emitted(Tail(ir))

\* tl.load(ptr, mask=mask, other=other, _builder=builder): Triton refuses
\* a pointer operand that is no pointer and a fallback without a mask.
\* The operands after the pointer are the mask and the fallback that are
\* given; the attributes say which are.
tl_load(b, ptr, mask, other) ==
  IF b.err # NoErr THEN b
  ELSE IF TyOf(b, ptr).k # "ptr" THEN Raise(b, "ValueError")
  ELSE IF mask = None /\ other # None THEN Raise(b, "ValueError")
  ELSE Emit(b, "load",
            <<ptr>> \o (IF mask = None THEN <<>> ELSE <<mask>>)
                   \o (IF other = None THEN <<>> ELSE <<other>>),
            <<IF mask = None THEN 0 ELSE 1, IF other = None THEN 0 ELSE 1>>,
            [k |-> "i32", shape |-> TyOf(b, ptr).shape])

\* tl.load(ptr, _builder=builder)
load(b, ptr) == tl_load(b, ptr, None, None)

\* tl.store(ptr, value, _builder=builder) without mask: the value is
\* broadcast to the shape of the pointers.
store(b, ptr, value) ==
  IF b.err # NoErr THEN b
  ELSE IF TyOf(b, ptr).k # "ptr" THEN Raise(b, "ValueError")
  ELSE IF ~Compatible(TyOf(b, ptr).shape, TyOf(b, value).shape)
    THEN Raise(b, "ShapeMismatch")
  ELSE Emit(b, "store", <<ptr, value>>, <<>>, ScalarTy("none"))

\* ------------------------------------------------------------------
\* Lowering rules of the state primitives and of arithmetic
\* ------------------------------------------------------------------

\* The NDIndexer made with the shape of the first integer indexer,
\* whatever the shapes of the others.
PackIndexer_FirstShape(b, shape, non_slice_idx, idx_shapes, indexed_dims) ==
  LET nth(k) == Cardinality({j \in 1..k : indexed_dims[j]})
      idx == [k \in 1..Len(indexed_dims) |->
                IF indexed_dims[k] THEN IntIndex(non_slice_idx[nth(k)])
                ELSE from_slice(shape[k])]
  IN Ret(b, NDIndexer(idx, shape, IF idx_shapes = <<>> THEN <<>> ELSE idx_shapes[1]))

\* _pack_indices(non_slice_idx, indexed_dims) followed by the making of
\* the NDIndexer as the state rules do it: an indexed axis takes the next
\* integer indexer, any other axis the Slice of the whole axis; the shape
\* of the integer indexers, as the rule reads them (idx_shapes), must be
\* one: `int_indexer_shape, = {...}` unpacks a set of one member.
PackIndexer(b, shape, non_slice_idx, idx_shapes, indexed_dims) ==
  LET nth(k) == Cardinality({j \in 1..k : indexed_dims[j]})
      idx == [k \in 1..Len(indexed_dims) |->
                IF indexed_dims[k] THEN IntIndex(non_slice_idx[nth(k)])
                ELSE from_slice(shape[k])]
      shapes == {idx_shapes[k] : k \in 1..Len(idx_shapes)}
  IN IF non_slice_idx = <<>> THEN Ret(b, NDIndexer(idx, shape, <<>>))
     ELSE IF Cardinality(shapes) # 1 THEN Ret(Raise(b, "ValueError"), NDIndexer(idx, shape, <<>>))
     ELSE Ret(b, NDIndexer(idx, shape, CHOOSE g \in shapes : TRUE))

\* The pointers a state rule reads or writes: the NDIndexer of the
\* equation, then _compute_pointers_from_indices.
RulePointers(b, block_infos, avals_in, ptr, non_slice_idx, idx_shapes, indexed_dims) ==
  Bind(PackIndexer(b, avals_in[1].shape, non_slice_idx, idx_shapes, indexed_dims), LAMBDA p :
    _compute_pointers_from_indices(p.b, ptr, block_infos[1], p.v, avals_in[1].shape))

\* {i.shape for i in idx_avals if not isinstance(i, slice)} of the get and
\* swap rules: the shapes of the avals that _pack_indices takes for the
\* indexed axes, the first of them `from` (1-based) in avals_in.
AvalShapes(avals_in, from, indexed_dims) ==
  [k \in 1..Cardinality({j \in 1..Len(indexed_dims) : indexed_dims[j]}) |->
     avals_in[from + k - 1].shape]

\* {tuple(x.value for x in i.shape) for i in non_slice_idx} of the
\* addupdate rule: the shapes of the tl.tensors.
TensorShapes(b, non_slice_idx) ==
  [k \in 1..Len(non_slice_idx) |-> TyOf(b, non_slice_idx[k]).shape]

\* _get_lowering_rule(ctx, ptr, *non_slice_idx, indexed_dims)
_get_lowering_rule(b, block_infos, avals_in, invals, indexed_dims) ==
  IF TyOf(b, invals[1]).k # "ptr"
    THEN IF Len(avals_in) # 1 THEN Ret(Raise(b, "AssertionError"), None)
         ELSE Ret(b, invals[1])
  ELSE Bind(RulePointers(b, block_infos, avals_in, invals[1], Tail(invals),
                         AvalShapes(avals_in, 2, indexed_dims), indexed_dims),
            LAMBDA p : Bind(load(p.b, p.v), LAMBDA b1 : Ret(b1, Last(b1))))

\* _swap_lowering_rule(ctx, ptr, value, *non_slice_idx, indexed_dims)
_swap_lowering_rule(b, block_infos, avals_in, invals, indexed_dims) ==
  Bind(RulePointers(b, block_infos, avals_in, invals[1], Tail(Tail(invals)),
                    AvalShapes(avals_in, 3, indexed_dims), indexed_dims),
       LAMBDA p :
         Bind(load(p.b, p.v), LAMBDA b1 :
           Ret(store(b1, p.v, invals[2]), Last(b1))))

\* _addupdate_lowering_rule(ctx, ptr, value, *non_slice_idx, indexed_dims)
_addupdate_lowering_rule(b, block_infos, avals_in, invals, indexed_dims) ==
  Bind(RulePointers(b, block_infos, avals_in, invals[1], Tail(Tail(invals)),
                    TensorShapes(b, Tail(Tail(invals))), indexed_dims),
       LAMBDA p :
         Bind(load(p.b, p.v), LAMBDA b1 :
           Bind(BinOp(b1, "add", Last(b1), invals[2]), LAMBDA b2 :
             Ret(store(b2, p.v, Last(b2)), <<>>))))

\* The arithmetic rules with every primitive lowered as an addition.
_arith_lowering_rule_AddOnly(b, prim, invals) ==
  Bind(BinOp(b, "add", invals[1], invals[2]), LAMBDA b1 : Ret(b1, Last(b1)))

\* _add_lowering_rule, _mul_lowering_rule, _sub_lowering_rule:
\* a.__add__(b), a.__mul__(b), a.__sub__(b)
_arith_lowering_rule(b, prim, invals) ==
  Bind(BinOp(b, prim, invals[1], invals[2]), LAMBDA b1 : Ret(b1, Last(b1)))

\* ------------------------------------------------------------------
\* State
\* ------------------------------------------------------------------

VARIABLES
  grid,        \* grid_spec.grid, the declared grid
  pid,         \* the program instance observed: one coordinate per launch axis
  g_pc,        \* "start" before _process_grid_to_3d_grid, "done" after
  g_res        \* what _process_grid_to_3d_grid returned

VARIABLES
  a_in,        \* the call observed: of _compute_pointers_from_indices or of a rule
  a_pc,        \* "start" before the call, "done" after
  a_res        \* the builder after the call and the value returned

VARIABLES
  w_in,        \* the arguments of lower_jaxpr_to_triton_module
  w_pc,        \* "start", "walking" (inside lower_jaxpr_to_triton_ir), "done", "failed"
  bld,         \* the builder
  stack,       \* the running calls of lower_jaxpr_to_triton_ir, innermost last
  mctx,        \* the locals of lower_jaxpr_to_triton_module
  w_res,       \* the TritonLoweringResult returned, if any
  exc,         \* the exception that ended the lowering, if any
  log          \* the primitives whose equations the walker has taken up, in order

VARIABLES
  t_in,        \* an atomic_rmw call: the avals of the Ref and the value, the kind
  t_pc,        \* "start", "traced" (bound into the jaxpr), "lowered", "failed"
  t_bld,       \* the builder of the lowering of the traced call
  t_exc        \* the exception raised, if any

VARIABLES
  l_in,        \* a pallas load call: the memory of the Ref, the mask, the fallback
  l_args,      \* the operands and parameters load binds load_p with
  l_pc,        \* "start", "bound", "lowered", "ran", "failed": the kernel side
  l_dpc,       \* "none", "done": the reference (discharge) side
  l_low,       \* the builder after _masked_load_lowering_rule and its result
  l_run,       \* the lanes the lowered load gives when the kernel runs
  l_dis        \* the lanes _load_discharge_rule gives

gridVars == <<grid, pid, g_pc, g_res>>
addrVars == <<a_in, a_pc, a_res>>
walkVars == <<w_in, w_pc, bld, stack, mctx, w_res, exc, log>>
atomVars == <<t_in, t_pc, t_bld, t_exc>>
loadVars == <<l_in, l_args, l_pc, l_dpc, l_low, l_run, l_dis>>
vars == <<gridVars, addrVars, walkVars, atomVars, loadVars>>

\* The variables of a part of the model that is not running.
GridIdle ==
  /\ grid = <<>> /\ pid = <<0, 0, 0>> /\ g_pc = "idle"
  /\ g_res = [b |-> NewBuilder, new_grid |-> <<>>, program_ids |-> <<>>]
AddrIdle ==
  /\ a_in = <<>> /\ a_pc = "idle" /\ a_res = Ret(NewBuilder, None)
WalkIdle ==
  /\ w_in = <<>> /\ w_pc = "idle" /\ bld = NewBuilder /\ stack = <<>>
  /\ mctx = <<>> /\ w_res = <<>> /\ exc = <<>> /\ log = <<>>
AtomIdle ==
  /\ t_in = <<>> /\ t_pc = "idle" /\ t_bld = NewBuilder /\ t_exc = ""
LoadIdle ==
  /\ l_in = <<>> /\ l_args = <<>> /\ l_pc = "idle" /\ l_dpc = "idle"
  /\ l_low = Ret(NewBuilder, None) /\ l_run = <<>> /\ l_dis = <<>>

\* ------------------------------------------------------------------
\* Grid decomposition on its own
\* ------------------------------------------------------------------

\* The grid of the spec's example.
ExampleGrid == <<4, 5, 6, 7>>

Grids == SeqsOf(1..MaxGridExtent, 0, MaxGridRank) \cup {ExampleGrid}

\* The launch grid as the GPU sees it: always three axes, the missing
\* ones of extent 1.
LaunchGrid(new_grid) == [k \in 1..3 |-> IF k <= Len(new_grid) THEN new_grid[k] ELSE 1]

\* The program instances of a launch.
Instances(new_grid) ==
  LET lg == LaunchGrid(new_grid)
  IN {p \in [1..3 -> 0..(SeqMax(lg) - 1)] : \A k \in 1..3 : p[k] < lg[k]}

NoResult == [b |-> NewBuilder, new_grid |-> <<>>, program_ids |-> <<>>]

GridInit ==
  /\ grid \in Grids
  /\ pid \in Instances(_process_grid_to_3d_grid(NewBuilder, grid).new_grid)
  /\ g_pc = "start"
  /\ g_res = NoResult
  /\ AddrIdle
  /\ WalkIdle
  /\ AtomIdle
  /\ LoadIdle

ProcessGrid ==
  /\ g_pc = "start"
  /\ g_res' = Bind(NewBuilder, LAMBDA b : _process_grid_to_3d_grid(b, grid))
  /\ g_pc' = "done"
  /\ UNCHANGED <<grid, pid, addrVars, walkVars, atomVars, loadVars>>

GridNext == ProcessGrid

SpecGrid == GridInit /\ [][GridNext]_vars

\* ------------------------------------------------------------------
\* Address computation on its own
\* ------------------------------------------------------------------

\* A tensor already in the builder when a rule runs: a kernel argument
\* (a pointer holding the address attr[1]) or a value of the given shape
\* holding attr in row-major order.
Given(b, name, k, shape, data) == Emit(b, name, <<>>, data, [k |-> k, shape |-> shape])

\* How an axis of the given extent is indexed in an observed call: a Slice
\* within the axis with a static or a dynamic start, or an integer index
\* holding start (a scalar) or start, start + 1, ... modulo the extent (a
\* block of the gather shape).
IndexChoices(extent) ==
  UNION {{[kind |-> k, start |-> st, size |-> sz] :
            k \in {"static", "dynamic"}, sz \in 1..(extent - st)}
         : st \in 0..(extent - 1)}
  \cup {[kind |-> "int", start |-> st, size |-> 1] : st \in 0..(extent - 1)}

\* One choice for every axis of a shape.
RECURSIVE IndexSeqs(_)
IndexSeqs(shape) ==
  IF shape = <<>> THEN {<<>>}
  ELSE {<<d>> \o rest : d \in IndexChoices(Head(shape)), rest \in IndexSeqs(Tail(shape))}

\* The common shapes of the integer indexers of a call: all of them have
\* one shape, as NDIndexer.from_indices_shape and the state rules make
\* them, and without integer indexers it is ().
GatherShapes(ix) ==
  IF \E k \in 1..Len(ix) : ix[k].kind = "int" THEN {<<>>, <<2>>} ELSE {<<>>}

\* An observed call: the shape of the array (the Ref's shape), how each
\* axis is indexed, the common shape of the integer indexers and the
\* address held by the root pointer.
AddrCall(sh, ix, g, base) ==
  [array_shape |-> sh, idx |-> ix, gshape |-> g, base |-> base, axes |-> <<>>]

\* An observed call with a BlockInfo.  axes describes the BlockInfo: for
\* every axis of the full array its extent, the extent of the block along
\* it (Mapped if the axis is collapsed) and the start offset of the block
\* (-1 if the BlockInfo holds None for it).  array_shape is the shape of
\* the Ref the kernel sees and ix how its axes are indexed.
BlockedCall(sh, ix, g, base, axes) == [AddrCall(sh, ix, g, base) EXCEPT !.axes = axes]

\* The start offsets of the BlockInfo of a call, put in the builder as the
\* results of _eval_index_map are: scalars, or None.
RECURSIVE GivenStarts(_, _, _, _)
GivenStarts(b, axes, k, starts) ==
  IF k > Len(axes) THEN [b |-> b, starts |-> starts]
  ELSE IF axes[k].start < 0 THEN GivenStarts(b, axes, k + 1, Append(starts, None))
  ELSE Bind(Given(b, "data", "i32", <<>>, <<axes[k].start>>), LAMBDA b1 :
         GivenStarts(b1, axes, k + 1, Append(starts, Last(b1))))

\* The tl.tensors of the indices of a call, put in the builder before the
\* call as the rule's operands are, and the indices that name them.
RECURSIVE GivenIndices(_, _, _, _)
GivenIndices(b, c, k, indices) ==
  IF k > Len(c.idx) THEN [b |-> b, indices |-> indices]
  ELSE LET d == c.idx[k]
       IN IF d.kind = "static"
            THEN GivenIndices(b, c, k + 1, Append(indices, Slice(d.start, d.size)))
          ELSE IF d.kind = "dynamic"
            THEN Bind(Given(b, "data", "i32", <<>>, <<d.start>>), LAMBDA b1 :
                   GivenIndices(b1, c, k + 1,
                                Append(indices, DynSlice(Last(b1), d.size))))
          ELSE Bind(Given(b, "data", "i32", c.gshape,
                          [j \in 1..SeqProd(c.gshape) |->
                             (d.start + j - 1) % c.array_shape[k]]), LAMBDA b1 :
                 GivenIndices(b1, c, k + 1, Append(indices, IntIndex(Last(b1)))))

\* The builder and the arguments of an observed call.
GivenCall(c) ==
  Bind(GivenIndices(Given(NewBuilder, "arg", "ptr", <<>>, <<c.base>>), c, 1, <<>>),
       LAMBDA g :
       Bind(GivenStarts(g.b, c.axes, 1, <<>>), LAMBDA st :
         [b |-> st.b, root_ptr |-> 1,
          block_info |-> IF c.axes = <<>> THEN NoBlockInfo
                         ELSE BlockInfo([k \in 1..Len(c.axes) |-> c.axes[k].full],
                                        st.starts,
                                        [k \in 1..Len(c.axes) |-> c.axes[k].block]),
          nd_indexer |-> NDIndexer(g.indices, c.array_shape, c.gshape),
          array_shape |-> c.array_shape]))

\* An array of three axes, for calls that mix two slices with a gather.
ExampleShape == <<2, 2, 2>>

AddrInit ==
  /\ \E sh \in SeqsOf(1..MaxExtent, 0, MaxRank) \cup {ExampleShape} :
       \E ix \in IndexSeqs(sh) :
         \E g \in GatherShapes(ix), base \in {0, 5} :
           a_in = AddrCall(sh, ix, g, base)
  /\ a_pc = "start"
  /\ a_res = Ret(NewBuilder, None)
  /\ GridIdle
  /\ WalkIdle
  /\ AtomIdle
  /\ LoadIdle

ComputePointers ==
  /\ a_pc = "start"
  /\ a_res' = Bind(GivenCall(a_in), LAMBDA g :
                _compute_pointers_from_indices(g.b, g.root_ptr, g.block_info,
                                               g.nd_indexer, g.array_shape))
  /\ a_pc' = "done"
  /\ UNCHANGED <<a_in, gridVars, walkVars, atomVars, loadVars>>

AddrNext == ComputePointers

SpecAddr == AddrInit /\ [][AddrNext]_vars

\* ------------------------------------------------------------------
\* Address computation with a BlockInfo
\* ------------------------------------------------------------------

\* The axes of the drawn blocked arrays: the extent of the array, the
\* extent of the block (or Mapped) and the start offset of the block: None
\* (-1) or that of the last block of the axis.
BlockAxes ==
  UNION {{[full |-> fb[1], block |-> fb[2], start |-> st] :
            st \in {-1, fb[1] - (IF fb[2] = Mapped THEN 1 ELSE fb[2])}}
         : fb \in {<<2, Mapped>>, <<2, 2>>, <<4, 2>>}}

\* How the axes of the Ref of a drawn blocked call are indexed: the whole
\* axis, the last element as a Slice with a dynamic start, or the last
\* element as an integer indexer.
RECURSIVE BlockIndexSeqs(_)
BlockIndexSeqs(shape) ==
  IF shape = <<>> THEN {<<>>}
  ELSE {<<d>> \o rest :
          d \in {[kind |-> "static", start |-> 0, size |-> Head(shape)],
                 [kind |-> "dynamic", start |-> Head(shape) - 1, size |-> 1],
                 [kind |-> "int", start |-> Head(shape) - 1, size |-> 1]},
          rest \in BlockIndexSeqs(Tail(shape))}

\* The shape of the Ref the kernel sees: the block without its collapsed
\* axes.
RECURSIVE RefShape(_)
RefShape(axes) ==
  IF axes = <<>> THEN <<>>
  ELSE (IF Head(axes).block = Mapped THEN <<>> ELSE <<Head(axes).block>>)
         \o RefShape(Tail(axes))

\* The indexer terms of a drawn call: one per axis of the Ref, or one too
\* few, or one too many.
TermShapes(sh) ==
  {sh} \cup (IF sh = <<>> THEN {} ELSE {Tail(sh), <<1>> \o sh})

BlockInit ==
  /\ \E axes \in SeqsOf(BlockAxes, 1, MaxRank) :
       \E sh \in TermShapes(RefShape(axes)) :
         \E ix \in BlockIndexSeqs(sh) :
           \E g \in GatherShapes(ix) :
             a_in = BlockedCall(sh, ix, g, 5, axes)
  /\ a_pc = "start"
  /\ a_res = Ret(NewBuilder, None)
  /\ GridIdle
  /\ WalkIdle
  /\ AtomIdle
  /\ LoadIdle

SpecBlock == BlockInit /\ [][AddrNext]_vars

\* The addresses computed by the observed call, by position.
Addresses == EvalIR(a_res.b.ir, <<0, 0, 0>>)[a_res.v]

\* The call indexes every axis of an unblocked array with a full-range slice.
FullRangeCall ==
  \A k \in 1..Len(a_in.idx) :
    a_in.idx[k] = [kind |-> "static", start |-> 0, size |-> a_in.array_shape[k]]

\* C1: for a full-range slice access into an unblocked array the address
\* of the element at position idx is base + sum over the axes of idx[axis]
\* times the row-major stride of the axis in the declared shape, for every
\* idx with 0 <= idx[axis] < extent of the axis.
C1_FullRangeAddresses ==
  (a_pc = "done" /\ FullRangeCall) =>
    /\ a_res.b.err = NoErr
    /\ TyOf(a_res.b, a_res.v).shape = a_in.array_shape
    /\ \A idx \in IndexSet(a_in.array_shape) :
         Addresses[idx] =
           a_in.base + SeqSum([k \in 1..Len(idx) |->
                                 idx[k] * RowMajorStride(a_in.array_shape, k)])

C1_Witness ==
  /\ a_pc = "done" /\ FullRangeCall /\ a_in.array_shape = <<2, 2>>
  /\ a_in.base = 5 /\ Addresses[<<1, 1>>] = 8

\* How many axes of the observed call are indexed by a slice, how many of
\* them come before axis k, and the m-th of them.
NSlices == Cardinality({k \in 1..Len(a_in.idx) : a_in.idx[k].kind # "int"})
SliceRank(k) == Cardinality({j \in 1..(k - 1) : a_in.idx[j].kind # "int"})
SliceAxis(m) ==
  CHOOSE k \in 1..Len(a_in.idx) : a_in.idx[k].kind # "int" /\ SliceRank(k) = m - 1

\* The gather shape followed by the sizes of the slices, in their order.
GatherThenSlices == a_in.gshape \o [m \in 1..NSlices |-> a_in.idx[SliceAxis(m)].size]

\* The index along axis k of the array that position idx of the result
\* stands for, if the gather axes come first and the slices follow in
\* their order: a gather term is read at the leading coordinates of idx,
\* the slice that is the m-th slice (from 0) at coordinate
\* len(gather shape) + m.
IndexAlong(k, idx) ==
  IF a_in.idx[k].kind = "int"
    THEN (a_in.idx[k].start
            + FlatIndex(SubSeq(idx, 1, Len(a_in.gshape)), a_in.gshape))
           % a_in.array_shape[k]
  ELSE a_in.idx[k].start + idx[Len(a_in.gshape) + SliceRank(k) + 1]

\* The call mixes gather terms and slices.
MixedCall ==
  /\ \E k \in 1..Len(a_in.idx) : a_in.idx[k].kind = "int"
  /\ \E k \in 1..Len(a_in.idx) : a_in.idx[k].kind # "int"

\* C15: the address tensor of an indexer has the gather shape followed by
\* the sizes of the slices in their order, and holds at every position
\* the address of the element whose index along a gather axis is the
\* gather term at the leading coordinates and whose index along the m-th
\* slice axis (from 0) is the start of the slice plus coordinate
\* len(gather shape) + m.
C15_GatherFirst ==
  a_pc = "done" =>
    /\ a_res.b.err = NoErr
    /\ TyOf(a_res.b, a_res.v).shape = GatherThenSlices
    /\ \A idx \in IndexSet(GatherThenSlices) :
         Addresses[idx] =
           a_in.base + SeqSum([k \in 1..Len(a_in.idx) |->
                                 IndexAlong(k, idx) * RowMajorStride(a_in.array_shape, k)])

\* A call on an array of three axes with a slice of size 1, a gather of
\* shape (2,) and a slice of size 2, in this order: the result has the
\* shape (2, 1, 2), and position (1, 0, 1) holds the address of the element
\* (1, (1 + 1) mod 2, 1) = (1, 0, 1).
C15_Witness ==
  /\ a_pc = "done" /\ MixedCall
  /\ a_in.array_shape = ExampleShape
  /\ a_in.gshape = <<2>>
  /\ a_in.idx = <<[kind |-> "static", start |-> 1, size |-> 1],
                  [kind |-> "int", start |-> 1, size |-> 1],
                  [kind |-> "dynamic", start |-> 0, size |-> 2]>>
  /\ a_in.base = 5
  /\ TyOf(a_res.b, a_res.v).shape = <<2, 1, 2>>
  /\ Addresses[<<1, 0, 1>>] = 5 + 4 + 0 + 1

\* The observed call has a BlockInfo; its full shape; whether axis k of it
\* is collapsed; the start offset of the block along axis k, 0 if the
\* BlockInfo holds None for it.
Blocked == a_in.axes # <<>>
FullShape == [k \in 1..Len(a_in.axes) |-> a_in.axes[k].full]
Collapsed(k) == a_in.axes[k].block = Mapped
StartOf(k) == IF a_in.axes[k].start < 0 THEN 0 ELSE a_in.axes[k].start

\* The indexer term that axis k takes if the axes that are not collapsed
\* take the terms in order, one each.
TermOf(k) == Cardinality({j \in 1..k : ~Collapsed(j)})

\* There are as many indexer terms as axes that are not collapsed.
TermsMatch ==
  Len(a_in.idx) + Cardinality({k \in 1..Len(a_in.axes) : Collapsed(k)})
    = Len(a_in.axes)

\* The offset along axis k of the full array that position idx of the
\* result stands for: the index within the block plus the start of the
\* block.
OffsetAlong(k, idx) ==
  (IF Collapsed(k) THEN 0 ELSE IndexAlong(TermOf(k), idx)) + StartOf(k)

\* C16: with a BlockInfo the address at position idx of the result is the
\* base plus, summed over the axes of the full array, (index along the
\* axis + start offset of the block along it) times the row-major stride
\* of the axis in the full shape.
C16_FullShapeStrides ==
  (a_pc = "done" /\ Blocked /\ TermsMatch) =>
    /\ a_res.b.err = NoErr
    /\ TyOf(a_res.b, a_res.v).shape = GatherThenSlices
    /\ \A idx \in IndexSet(GatherThenSlices) :
         Addresses[idx] =
           a_in.base + SeqSum([k \in 1..Len(a_in.axes) |->
                                 OffsetAlong(k, idx) * RowMajorStride(FullShape, k)])

\* A 2 x 2 block starting at column 2 of a 2 x 4 array: element (1, 1) of
\* the block is at 5 + 1 * 4 + (1 + 2) * 1; with the strides of the block
\* it would be at 5 + 1 * 2 + (1 + 2) * 1.
C16_Witness ==
  /\ a_pc = "done" /\ Blocked /\ TermsMatch
  /\ a_in.axes = <<[full |-> 2, block |-> 2, start |-> -1],
                   [full |-> 4, block |-> 2, start |-> 2]>>
  /\ a_in.idx = <<[kind |-> "static", start |-> 0, size |-> 2],
                  [kind |-> "static", start |-> 0, size |-> 2]>>
  /\ Addresses[<<1, 1>>] = 12

\* The term the computation adds to the pointer for axis k: the pointer is
\* root_ptr plus one term per axis, added in the order of the axes.
RECURSIVE AddOf(_)
AddOf(k) ==
  IF k = Len(a_in.axes) THEN a_res.v ELSE a_res.b.ir[AddOf(k + 1)].args[1]
AxisTerm(k) == a_res.b.ir[AddOf(k)].args[2]

\* C17: a collapsed axis of the block takes no indexer term and adds only
\* its start offset (0 if there is none) times its stride, at every
\* position; every other axis takes the next term in order; and the
\* computation fails, emitting nothing, unless the number of terms plus the
\* number of collapsed axes is the rank of the full shape.
C17_CollapsedAxes ==
  (a_pc = "done" /\ Blocked) =>
    IF ~TermsMatch
      THEN /\ a_res.b.err = "AssertionError"
           /\ a_res.b.ir = GivenCall(a_in).b.ir
    ELSE /\ a_res.b.err = NoErr
         /\ AddOf(1) > 1 /\ a_res.b.ir[AddOf(1)].args[1] = 1
         /\ \A k \in 1..Len(a_in.axes) :
              \A idx \in IndexSet(GatherThenSlices) :
                EvalIR(a_res.b.ir, <<0, 0, 0>>)[AxisTerm(k)][idx] =
                  (IF Collapsed(k) THEN StartOf(k)
                   ELSE IndexAlong(TermOf(k), idx) + StartOf(k))
                    * RowMajorStride(FullShape, k)

\* A collapsed axis with start offset 1 before an indexed one: the only
\* term goes to the second axis, the first adds 1 * 4 everywhere.
C17_Witness ==
  /\ a_pc = "done" /\ Blocked /\ TermsMatch
  /\ a_in.axes = <<[full |-> 2, block |-> Mapped, start |-> 1],
                   [full |-> 4, block |-> 2, start |-> 2]>>
  /\ a_in.idx = <<[kind |-> "static", start |-> 0, size |-> 2]>>
  /\ a_res.b.err = NoErr
  /\ Addresses[<<1>>] = 12
  /\ EvalIR(a_res.b.ir, <<0, 0, 0>>)[AxisTerm(1)][<<0>>] = 4
  /\ EvalIR(a_res.b.ir, <<0, 0, 0>>)[AxisTerm(1)][<<1>>] = 4

\* The coordinates the kernel recovers for the observed instance.
Recovered ==
  LET vals == EvalIR(g_res.b.ir, pid)
  IN [i \in 1..Len(g_res.program_ids) |-> ScalarVal(vals, g_res.program_ids[i])]

\* C3: the declared grid (4, 5, 6, 7) launches as (20, 6, 7) and the instance
\* (13, 2, 5) recovers the coordinates (0, 3, 2, 5).
C3_Original ==
  (g_pc = "done" /\ grid = ExampleGrid /\ pid = <<13, 2, 5>>)
    => /\ g_res.new_grid = <<20, 6, 7>>
       /\ Recovered = <<0, 3, 2, 5>>

\* C3 (amended): the declared grid (4, 5, 6, 7) launches as (20, 6, 7) and
\* the instance (13, 2, 5) recovers the coordinates (2, 3, 2, 5): 13 mod 5
\* is 3, and 13 div 5 is 2, which mod 4 is 2.
C3_Flatten ==
  (g_pc = "done" /\ grid = ExampleGrid /\ pid = <<13, 2, 5>>)
    => /\ g_res.new_grid = <<20, 6, 7>>
       /\ Recovered = <<2, 3, 2, 5>>

C3_Witness ==
  /\ g_pc = "done" /\ grid = ExampleGrid /\ pid = <<13, 2, 5>>
  /\ g_res.b.err = NoErr

\* The leading axes of a declared grid of more than 3 axes, which the
\* launch flattens into one, and the coordinates recovered for them where
\* the flattened coordinate is q.
LeadingExtents == SubSeq(grid, 1, Len(grid) - 2)
LeadingAt(q) ==
  LET vals == EvalIR(g_res.b.ir, <<q, 0, 0>>)
  IN [i \in 1..Len(LeadingExtents) |-> ScalarVal(vals, g_res.program_ids[i])]

\* C22: for a grid of more than 3 axes, as the flattened coordinate q
\* ranges over 0 .. product of the leading extents - 1, every recovered
\* leading coordinate is within its extent, every tuple of leading
\* coordinates comes from exactly one q, and q is the row-major rank of its
\* tuple: the last leading axis varies fastest.  (The statement is about
\* the grid, so it is looked at once per grid, at the first instance.)
C22_Bijection ==
  (g_pc = "done" /\ Len(grid) > 3 /\ pid = <<0, 0, 0>>) =>
    LET qs == 0..(SeqProd(LeadingExtents) - 1)
    IN /\ g_res.b.err = NoErr
       /\ g_res.new_grid[1] = SeqProd(LeadingExtents)
       /\ \A q \in qs : LeadingAt(q) \in IndexSet(LeadingExtents)
       /\ \A t \in IndexSet(LeadingExtents) :
            Cardinality({q \in qs : LeadingAt(q) = t}) = 1
       /\ \A q \in qs : FlatIndex(LeadingAt(q), LeadingExtents) = q

\* The leading axes (4, 5) of the grid (4, 5, 6, 7): 20 flattened
\* coordinates, of which 13 and 14 differ in the second axis only.
C22_Witness ==
  /\ g_pc = "done" /\ grid = ExampleGrid /\ pid = <<0, 0, 0>>
  /\ LeadingAt(13) = <<2, 3>>
  /\ LeadingAt(14) = <<2, 4>>
  /\ LeadingAt(15) = <<3, 0>>

\* Whether tl.tensor v is the native program id of launch axis `axis`.
IsNativeProgramId(b, v, axis) ==
  b.ir[v].op = "program_id" /\ b.ir[v].attr = <<axis>>

\* C4: the launch grid has at most 3 axes.  A declared grid of at most 3
\* axes is launched as declared, each coordinate the native program id of
\* its axis.  A longer grid is launched as (product of all extents but the
\* last two, second-to-last extent, last extent); its last two coordinates
\* are the native program ids of launch axes 1 and 2, and there are as many
\* recovered coordinates as declared axes.
C4_AtMostThreeAxes ==
  g_pc = "done" =>
    LET n == Len(grid)
        r == g_res
    IN /\ r.b.err = NoErr
       /\ Len(r.new_grid) <= 3
       /\ Len(r.program_ids) = n
       /\ n <= 3 =>
            /\ r.new_grid = grid
            /\ \A i \in 1..n : IsNativeProgramId(r.b, r.program_ids[i], i - 1)
            /\ \A i \in 1..n : Recovered[i] = pid[i]
       /\ n > 3 =>
            /\ r.new_grid =
                 <<SeqProd([i \in 1..(n - 2) |-> grid[i]]), grid[n - 1], grid[n]>>
            /\ IsNativeProgramId(r.b, r.program_ids[n - 1], 1)
            /\ IsNativeProgramId(r.b, r.program_ids[n], 2)
            /\ Recovered[n - 1] = pid[2] /\ Recovered[n] = pid[3]

C4_Witness ==
  /\ g_pc = "done" /\ Len(grid) = 5 /\ g_res.b.err = NoErr
  /\ g_res.new_grid = <<8, 2, 2>> /\ pid = <<7, 1, 1>>

\* ------------------------------------------------------------------
\* lower_jaxpr_to_triton_ir: the walker
\* ------------------------------------------------------------------

\* read_env(var): a Literal becomes a constant, emitted where the
\* insertion point is; a Var is looked up.
read_env(b, env, a) ==
  IF a.lit THEN Bind(to_tensor(b, a.v), LAMBDA b1 : Ret(b1, Last(b1)))
  ELSE Ret(b, env[a.v])

\* map(read_env, atoms)
RECURSIVE ReadAll(_, _, _, _)
ReadAll(b, env, atoms, acc) ==
  IF atoms = <<>> THEN Ret(b, acc)
  ELSE Bind(read_env(b, env, Head(atoms)), LAMBDA r :
         ReadAll(r.b, env, Tail(atoms), Append(acc, r.v)))

\* read_block_info_env(var)
read_block_info_env(block_info_env, a) ==
  IF a.lit THEN NoBlockInfo
  ELSE IF a.v \in DOMAIN block_info_env THEN block_info_env[a.v]
  ELSE NoBlockInfo

\* The block_infos argument of the walker: a list, or None, or, as
\* _xla_call_lowering_rule calls it, a tl.tensor.
BlockInfos(infos) == [none |-> FALSE, infos |-> infos, tensor |-> None]
NoBlockInfos == [none |-> TRUE, infos |-> <<>>, tensor |-> None]
TensorBlockInfos(v) == [none |-> FALSE, infos |-> <<>>, tensor |-> v]

\* What a for rule keeps across the walk of its body.
NoSaved ==
  [is_loop_arg |-> <<>>, should_discharge |-> <<>>, non_loop_args |-> <<>>,
   loop_args |-> <<>>, ptrs |-> <<>>, for_op |-> 0, loop_block |-> 0,
   current_block |-> 0]

\* safe_zip(jaxpr.invars, block_infos) or safe_map(write_env, jaxpr.invars,
\* args) of the walker's entry finds lists of different lengths.
EntryMismatch(jaxpr, block_infos, args) ==
  \/ ~block_infos.none /\ Len(block_infos.infos) # Len(jaxpr.invars)
  \/ Len(args) # Len(jaxpr.invars)

\* The entry of lower_jaxpr_to_triton_ir(ctx, jaxpr, block_infos, *args):
\* the environment holds the arguments, block_info_env the block infos, and
\* the first equation is next.  kind names the caller, saved its locals.
Frame(jaxpr, block_infos, args, kind, saved) ==
  LET n == Len(jaxpr.invars)
      pos(id) == CHOOSE k \in 1..n : jaxpr.invars[k].v = id /\
                   \A j \in (k + 1)..n : jaxpr.invars[j].v # id
      ids == {jaxpr.invars[k].v : k \in 1..n}
  IN [jaxpr |-> jaxpr, pc |-> 1,
      env |-> [id \in ids |-> args[pos(id)]],
      block_info_env |->
        [id \in ids |-> IF block_infos.none THEN NoBlockInfo
                        ELSE block_infos.infos[pos(id)]],
      kind |-> kind, saved |-> saved]

\* The walker called by a caller that holds the builder b: the frame is
\* pushed, or the entry raises.
Enter(b, stk, m, jaxpr, block_infos, args, kind, saved) ==
  IF b.err # NoErr THEN [b |-> b, stack |-> stk, m |-> m]
  ELSE IF block_infos.tensor # None
    \* safe_zip(jaxpr.invars, block_infos) takes len() of a tl.tensor
    THEN [b |-> Raise(b, "TypeError"), stack |-> stk, m |-> m]
  ELSE IF EntryMismatch(jaxpr, block_infos, args)
    THEN [b |-> Raise(b, "AssertionError"), stack |-> stk, m |-> m]
  ELSE [b |-> b, stack |-> Append(stk, Frame(jaxpr, block_infos, args, kind, saved)),
        m |-> m]

\* write_env(var, val)
write_env(frame, var, val) == [frame EXCEPT !.env = With(@, var.v, val)]

\* map(write_env, outvars, outvals)
RECURSIVE WriteAll(_, _, _)
WriteAll(frame, outvars, outvals) ==
  IF outvars = <<>> THEN frame
  ELSE WriteAll(write_env(frame, Head(outvars), Head(outvals)),
                Tail(outvars), Tail(outvals))

\* WriteResults with the equation after the next taken up.
WriteResults_Skipping(b, frame, eqn, outvals) ==
  IF b.err # NoErr THEN Ret(b, frame)
  ELSE IF multiple_results(eqn.prim)
    THEN Ret(b, [WriteAll(frame, eqn.outvars, outvals) EXCEPT !.pc = @ + 2])
  ELSE Ret(b, [write_env(frame, eqn.outvars[1], outvals) EXCEPT !.pc = @ + 2])

\* Lines 199-202 of the walker: the results of a rule written to the
\* environment, and the next equation taken up.
WriteResults(b, frame, eqn, outvals) ==
  IF b.err # NoErr THEN Ret(b, frame)
  ELSE IF multiple_results(eqn.prim)
    THEN IF Len(outvals) # Len(eqn.outvars)
           THEN Ret(Raise(b, "AssertionError"), frame)
         ELSE Ret(b, [WriteAll(frame, eqn.outvars, outvals) EXCEPT !.pc = @ + 1])
  ELSE IF eqn.outvars = <<>> THEN Ret(Raise(b, "IndexError"), frame)
  ELSE Ret(b, [write_env(frame, eqn.outvars[1], outvals) EXCEPT !.pc = @ + 1])

\* tl.exp(a), tl.log(a), tl.sin(a), tl.cos(a), ...: the rules of the unary
\* elementwise primitives.
_unary_lowering_rule(b, prim, invals) ==
  Bind(Emit(b, prim, <<invals[1]>>, <<>>, TyOf(b, invals[1])), LAMBDA b1 :
    Ret(b1, Last(b1)))

\* _while_lowering_rule with a block made before its raise.
_while_lowering_rule_Block(b, args, params) ==
  Ret(Raise(create_block(b), "NotImplementedError"), <<>>)

\* _while_lowering_rule(ctx, *args, cond_nconsts, cond_jaxpr, body_nconsts,
\* body_jaxpr): its first statement raises; the statements after it, which
\* would make blocks, branches and phi nodes, are never reached.
_while_lowering_rule(b, args, params) == Ret(Raise(b, "NotImplementedError"), <<>>)

\* _program_id_lowering_rule(ctx, *, axis): ctx.context.program_ids[axis],
\* where program_ids is the list the kernel builder made the context with.
_program_id_lowering_rule(b, program_ids, axis) ==
  IF axis >= Len(program_ids) THEN Ret(Raise(b, "IndexError"), None)
  ELSE Ret(b, program_ids[axis + 1])

\* rule(rule_ctx, *invals, **eqn.params) for the rules that call nothing
\* back.
ApplyRule(b, eqn, invals, block_infos, program_ids) ==
  CASE eqn.prim = "program_id" ->
         _program_id_lowering_rule(b, program_ids, eqn.params.axis)
    [] eqn.prim \in {"add", "add_any", "mul", "sub"} ->
         _arith_lowering_rule(b, IF eqn.prim = "add_any" THEN "add" ELSE eqn.prim, invals)
    [] eqn.prim = "get" ->
         _get_lowering_rule(b, block_infos, eqn.invars, invals, eqn.params.indexed_dims)
    [] eqn.prim = "swap" ->
         _swap_lowering_rule(b, block_infos, eqn.invars, invals, eqn.params.indexed_dims)
    [] eqn.prim = "addupdate" ->
         _addupdate_lowering_rule(b, block_infos, eqn.invars, invals, eqn.params.indexed_dims)
    [] eqn.prim = "while" -> _while_lowering_rule(b, invals, eqn.params)
    [] OTHER -> _unary_lowering_rule(b, eqn.prim, invals)

\* _xla_call_lowering_rule(ctx, *args, call_jaxpr, **_):
\* lower_jaxpr_to_triton_ir(ctx.context, call_jaxpr, *args).  The walker's
\* third parameter is block_infos, so the first operand of the call is
\* taken for the block infos and the operands after it for the arguments;
\* without operands the call lacks a parameter.
_xla_call_lowering_rule(b, stk, m, eqn, args) ==
  IF args = <<>> THEN [b |-> Raise(b, "TypeError"), stack |-> stk, m |-> m]
  ELSE Enter(b, stk, m, eqn.params.jaxpr, TensorBlockInfos(Head(args)), Tail(args),
             "call", NoSaved)

\* ------------------------------------------------------------------
\* _for_lowering_rule
\* ------------------------------------------------------------------

\* The first statement of the rule, with the test of unroll left out.
for_unsupported_ReverseOnly(reverse, unroll) == reverse

\* The first statement of the rule: `if reverse or unroll != 1`.
for_unsupported(reverse, unroll) == reverse \/ unroll # 1

\* is_loop_arg with the pointers carried as well.
is_loop_arg_Written(read_only, should_discharge) ==
  [k \in 1..Len(read_only) |-> ~read_only[k]]

\* map(operator.and_, map(operator.not_, read_only), should_discharge)
is_loop_arg_of(read_only, should_discharge) ==
  [k \in 1..Len(read_only) |-> ~read_only[k] /\ should_discharge[k]]

\* The locals of the rule that depend on the equation only: which
\* arguments are values (should_discharge), the body with their Refs
\* discharged, which Refs the body only reads, and the partition of the
\* arguments into pointers, loop arguments and the rest.
ForLocals(eqn, args) ==
  LET jaxpr == eqn.params.jaxpr
      should_discharge == [k \in 1..Len(eqn.invars) |-> ~eqn.invars[k].ref]
      state_effects == get_ref_state_effects(jaxpr)
      read_only == [k \in 1..Len(state_effects) |-> _is_read_only(state_effects[k])]
      mismatch == Len(read_only) # Len(should_discharge)
      is_loop_arg == IF mismatch THEN <<>> ELSE is_loop_arg_of(read_only, should_discharge)
  IN [should_discharge |-> should_discharge,
      discharged_jaxpr |-> IF mismatch THEN NoJaxpr
                           ELSE discharge_state(jaxpr, <<TRUE>> \o should_discharge),
      read_only |-> read_only,
      mismatch |-> mismatch,
      is_loop_arg |-> is_loop_arg,
      ptrs |-> partition_list(should_discharge, args)[1],
      non_loop_args |-> IF mismatch THEN <<>> ELSE partition_list(is_loop_arg, args)[1],
      loop_args |-> IF mismatch THEN <<>> ELSE partition_list(is_loop_arg, args)[2]]

\* for_op.get_body(0).arg(i + 1) for every loop argument, typed as the
\* argument is.
RECURSIVE BlockArgs(_, _, _, _, _)
BlockArgs(b, for_op, loop_args, i, acc) ==
  IF i > Len(loop_args) THEN Ret(b, acc)
  ELSE Bind(block_arg(b, for_op, i, TyOf(b, loop_args[i])), LAMBDA b1 :
         BlockArgs(b1, for_op, loop_args, i + 1, Append(acc, Last(b1))))

\* for_op.get_result(i) for every loop argument.
RECURSIVE ForResults(_, _, _, _, _)
ForResults(b, for_op, loop_args, i, acc) ==
  IF i > Len(loop_args) THEN Ret(b, acc)
  ELSE Bind(for_result(b, for_op, i - 1, TyOf(b, loop_args[i])), LAMBDA b1 :
         ForResults(b1, for_op, loop_args, i + 1, Append(acc, Last(b1))))

\* The rule from after its first statement to its call of the walker on
\* the discharged body: the bounds, the partition of the arguments, the
\* for operation, the loop block and the arguments of the body.
for_rule_enter(b, stk, m, eqn, args, block_infos) ==
  Bind(to_tensor(b, 0), LAMBDA b1 :
  Bind(to_tensor(b1, eqn.params.nsteps), LAMBDA b2 :
  Bind(to_tensor(b2, 1), LAMBDA b3 :
  Bind(create_to_index(b3, Last(b1)), LAMBDA b4 :
  Bind(create_to_index(b4, Last(b2)), LAMBDA b5 :
  Bind(create_to_index(b5, Last(b3)), LAMBDA b6 :
  Bind(ForLocals(eqn, args), LAMBDA L :
    IF L.mismatch THEN [b |-> Raise(b6, "AssertionError"), stack |-> stk, m |-> m]
    ELSE
  Bind(create_for_op(b6, Last(b4), Last(b5), Last(b6), L.loop_args), LAMBDA b7 :
  Bind(set_insertion_point(create_block(b7), b7.nblk + 1), LAMBDA b8 :
  Bind(induction_var(b8, Last(b7)), LAMBDA b9 :
  Bind(create_index_to_si(b9, Last(b9)), LAMBDA b10 :
  Bind(BlockArgs(b10, Last(b7), L.loop_args, 1, <<>>), LAMBDA ba :
    Enter(ba.b, stk, m, L.discharged_jaxpr,
          BlockInfos(<<NoBlockInfo>> \o block_infos),
          <<Last(b10)>> \o merge_lists(L.is_loop_arg, L.non_loop_args, ba.v),
          "for",
          [is_loop_arg |-> L.is_loop_arg, should_discharge |-> L.should_discharge,
           non_loop_args |-> L.non_loop_args, loop_args |-> L.loop_args,
           ptrs |-> L.ptrs, for_op |-> Last(b7), loop_block |-> b8.blk,
           current_block |-> b.blk])))))))))))))

\* The end of the rule with the insertion point left in the loop block.
for_rule_exit_InLoop(b, saved, out_discharged) ==
  IF b.err # NoErr THEN Ret(b, <<>>)
  ELSE IF CountTrue(saved.should_discharge) # Len(out_discharged)
    THEN Ret(Raise(b, "AssertionError"), <<>>)
  ELSE
  Bind(merge_lists(saved.should_discharge, saved.ptrs, out_discharged), LAMBDA all_out :
  Bind(partition_list(saved.is_loop_arg, all_out)[2], LAMBDA loop_out :
  Bind(IF loop_out # <<>> THEN create_yield_op(b, loop_out) ELSE b, LAMBDA b1 :
  Bind(merge_block_before(b1, saved.loop_block, saved.for_op), LAMBDA b2 :
  Bind(ForResults(b2, saved.for_op, saved.loop_args, 1, <<>>), LAMBDA fr :
    Ret(fr.b, merge_lists(saved.is_loop_arg, saved.non_loop_args, fr.v)))))))

\* The rule after the walker has returned the outputs of the discharged
\* body: the yield of the carried values, the body merged into the loop,
\* the insertion point back in the enclosing block, and the results.
for_rule_exit(b, saved, out_discharged) ==
  IF b.err # NoErr THEN Ret(b, <<>>)
  ELSE IF CountTrue(saved.should_discharge) # Len(out_discharged)
    THEN Ret(Raise(b, "AssertionError"), <<>>)
  ELSE
  Bind(merge_lists(saved.should_discharge, saved.ptrs, out_discharged), LAMBDA all_out :
  Bind(partition_list(saved.is_loop_arg, all_out)[2], LAMBDA loop_out :
  Bind(IF loop_out # <<>> THEN create_yield_op(b, loop_out) ELSE b, LAMBDA b1 :
  Bind(merge_block_before(b1, saved.loop_block, saved.for_op), LAMBDA b2 :
  Bind(set_insertion_point(b2, saved.current_block), LAMBDA b3 :
  Bind(ForResults(b3, saved.for_op, saved.loop_args, 1, <<>>), LAMBDA fr :
    Ret(fr.b, merge_lists(saved.is_loop_arg, saved.non_loop_args, fr.v))))))))

\* ------------------------------------------------------------------
\* lower_jaxpr_to_triton_module: the kernel builder
\* ------------------------------------------------------------------

\* pallas_core.BlockMapping(block_shape, index_map_jaxpr); NoBlockMapping
\* is the None of an operand without one.
BlockMapping(block_shape, index_map_jaxpr) ==
  [none |-> FALSE, block_shape |-> block_shape, index_map_jaxpr |-> index_map_jaxpr]
NoBlockMapping == [none |-> TRUE, block_shape |-> <<>>, index_map_jaxpr |-> NoJaxpr]

\* pallas_core.GridSpec(grid, block_mappings, mapped_dims)
GridSpec(g, block_mappings, mapped_dims) ==
  [grid |-> g, block_mappings |-> block_mappings, mapped_dims |-> mapped_dims]

\* The arguments of lower_jaxpr_to_triton_module.
ModuleCall(jaxpr, in_shapes, grid_spec) ==
  [jaxpr |-> jaxpr, in_shapes |-> in_shapes, grid_spec |-> grid_spec]

\* The alignment every kernel argument is declared to have.
Divisibility == 16

\* The address a launch passes for kernel argument i (0-based).
ArgAddress(i) == Divisibility * 4 * (i + 1)

\* The loop over the kernel arguments: fn.set_arg_attr(i, "tt.divisibility",
\* 16) and the pointer tl.tensor of fn.args(i).
RECURSIVE KernelArgs(_, _, _, _)
KernelArgs(b, invars, i, acc) ==
  IF i > Len(invars) THEN Ret(b, acc)
  ELSE Bind(Emit(b, "arg", <<>>, <<ArgAddress(i - 1), Divisibility>>, ScalarTy("ptr")),
            LAMBDA b1 : KernelArgs(b1, invars, i + 1, Append(acc, Last(b1))))

\* A list kept whole.
DropAt_None(l, dims, i) == l

\* The members of a list whose 0-based position is not in a set.
RECURSIVE DropAt(_, _, _)
DropAt(l, dims, i) ==
  IF l = <<>> THEN <<>>
  ELSE (IF i \in dims THEN <<>> ELSE <<Head(l)>>) \o DropAt(Tail(l), dims, i + 1)

\* Block indices left as they are.
ScaleIndices_Unscaled(b, block_indices, block_shape, acc) == Ret(b, block_indices)

\* The end of _eval_index_map: every block index times the extent of its
\* block axis, a mapped axis left as it is.
RECURSIVE ScaleIndices(_, _, _, _)
ScaleIndices(b, block_indices, block_shape, acc) ==
  IF block_indices = <<>> THEN Ret(b, acc)
  ELSE IF Head(block_shape) = Mapped
    THEN ScaleIndices(b, Tail(block_indices), Tail(block_shape),
                      Append(acc, Head(block_indices)))
  ELSE Bind(BinOpInt(b, "mul", Head(block_indices), Head(block_shape)), LAMBDA b1 :
         ScaleIndices(b1, Tail(block_indices), Tail(block_shape),
                      Append(acc, Last(b1))))

_eval_index_map_finish(b, block_indices, block_shape) ==
  IF b.err # NoErr THEN Ret(b, <<>>)
  ELSE IF Len(block_indices) # Len(block_shape)
    THEN Ret(Raise(b, "AssertionError"), <<>>)
  ELSE ScaleIndices(b, block_indices, block_shape, <<>>)

\* The list of block infos of the kernel builder.
block_infos_of(w, start_indices) ==
  [j \in 1..Len(w.grid_spec.block_mappings) |->
     IF w.grid_spec.block_mappings[j].none THEN NoBlockInfo
     ELSE BlockInfo(w.in_shapes[j], start_indices[j],
                    w.grid_spec.block_mappings[j].block_shape)]

\* The kernel builder from block mapping m.k on, up to its next call of
\* the walker: an operand without a block mapping has no start indices,
\* the index map of the next one with a mapping is walked with the
\* program ids as arguments, and after the last operand the block infos
\* are made and the body of the kernel is walked.
RECURSIVE EvalIndexMaps(_, _, _)
EvalIndexMaps(w, b, m) ==
  IF b.err # NoErr THEN [b |-> b, stack |-> <<>>, m |-> m]
  ELSE IF m.k > Len(w.grid_spec.block_mappings)
    THEN IF Len(w.in_shapes) # Len(w.grid_spec.block_mappings)
           THEN [b |-> Raise(b, "AssertionError"), stack |-> <<>>, m |-> m]
         ELSE Enter(b, <<>>, m, w.jaxpr, BlockInfos(block_infos_of(w, m.start_indices)),
                    m.args, "body", NoSaved)
  ELSE IF w.grid_spec.block_mappings[m.k].none
    THEN EvalIndexMaps(w, b, [m EXCEPT !.k = @ + 1,
                                       !.start_indices = Append(@, <<>>)])
  ELSE Enter(b, <<>>, m, w.grid_spec.block_mappings[m.k].index_map_jaxpr,
             NoBlockInfos, m.program_ids, "index_map", NoSaved)

NoModuleContext ==
  [new_grid |-> <<>>, program_ids |-> <<>>, local_program_ids |-> <<>>,
   args |-> <<>>, start_indices |-> <<>>, k |-> 1]

\* lower_jaxpr_to_triton_module up to its first call of the walker: the
\* kernel must have no outputs; its arguments are pointers; the grid is
\* brought to three axes and the program ids of the mapped axes are
\* left out of the local ones.
module_start(w) ==
  IF Len(w.jaxpr.outvars) # 0
    THEN [b |-> Raise(NewBuilder, "AssertionError"), stack |-> <<>>, m |-> NoModuleContext]
  ELSE
  Bind(KernelArgs(NewBuilder, w.jaxpr.invars, 1, <<>>), LAMBDA a :
  Bind(_process_grid_to_3d_grid(a.b, w.grid_spec.grid), LAMBDA g :
    EvalIndexMaps(w, g.b,
      [new_grid |-> g.new_grid, program_ids |-> g.program_ids,
       local_program_ids |-> DropAt(g.program_ids, w.grid_spec.mapped_dims, 0),
       args |-> a.v, start_indices |-> <<>>, k |-> 1])))

\* ------------------------------------------------------------------
\* The lowering of a kernel, step by step
\* ------------------------------------------------------------------

NoExc == [type |-> "", arg |-> ""]

\* TritonLoweringResult(ir_context, module, builder, new_grid)
TritonLoweringResult(new_grid) == [none |-> FALSE, grid |-> new_grid]
NoLoweringResult == [none |-> TRUE, grid |-> <<>>]

\* The innermost running call of the walker and the equation it is at.
Top == stack[Len(stack)]
CurEqn == Top.jaxpr.eqns[Top.pc]
AtEqn == w_pc = "walking" /\ stack # <<>> /\ Top.pc <= Len(Top.jaxpr.eqns)
AtReturn(kind) ==
  w_pc = "walking" /\ stack # <<>> /\ Top.pc > Len(Top.jaxpr.eqns) /\ Top.kind = kind

\* invals = map(read_env, eqn.invars)
Invals == ReadAll(bld, Top.env, CurEqn.invars, <<>>)

\* eqn_block_infos = map(read_block_info_env, eqn.invars)
EqnBlockInfos ==
  [k \in 1..Len(CurEqn.invars) |->
     read_block_info_env(Top.block_info_env, CurEqn.invars[k])]

ReplaceTop(stk, frame) == [stk EXCEPT ![Len(stk)] = frame]
Pop(stk) == SubSeq(stk, 1, Len(stk) - 1)

\* The test of the walker with every primitive taken for registered.
RuleMissing_Never(prim) == FALSE

\* `eqn.primitive not in triton_lowering_rules`
RuleMissing(prim) == prim \notin triton_lowering_rules

\* The state after a step that left the builder b: an exception raised in
\* the step ends the lowering, with the calls that were running left as
\* its traceback; otherwise the step's stack and locals are in force.
Outcome(b, stk, m, pc, arg) ==
  /\ bld' = b
  /\ w_pc' = IF b.err # NoErr THEN "failed" ELSE pc
  /\ exc' = IF b.err # NoErr THEN [type |-> b.err, arg |-> arg] ELSE exc
  /\ stack' = IF b.err # NoErr THEN stack ELSE stk
  /\ mctx' = IF b.err # NoErr THEN mctx ELSE m

\* lower_jaxpr_to_triton_module from its start to its first call of the
\* walker.
ModuleStart ==
  /\ w_pc = "start"
  /\ \E e \in {module_start(w_in)} : Outcome(e.b, e.stack, e.m, "walking", "")
  /\ UNCHANGED <<w_in, w_res, log, gridVars, addrVars, atomVars, loadVars>>

\* One pass of the walker's loop at an equation whose primitive has no
\* rule: the operands are read, then the lookup raises.
LowerUnregistered ==
  /\ AtEqn
  /\ RuleMissing(CurEqn.prim)
  /\ \E r \in {Invals} :
       Outcome(Raise(r.b, "NotImplementedError"), stack, mctx, "walking", CurEqn.prim)
  /\ log' = Append(log, CurEqn.prim)
  /\ UNCHANGED <<w_in, w_res, gridVars, addrVars, atomVars, loadVars>>

\* One pass of the walker's loop at an equation whose rule calls nothing
\* back: operands read, rule applied, results written.
LowerEqn ==
  /\ AtEqn
  /\ ~RuleMissing(CurEqn.prim)
  /\ CurEqn.prim \notin {"for", "xla_call"}
  /\ \E r \in {Invals} :
       \E o \in {ApplyRule(r.b, CurEqn, r.v, EqnBlockInfos, mctx.local_program_ids)} :
         \E wr \in {WriteResults(o.b, Top, CurEqn, o.v)} :
           Outcome(wr.b, ReplaceTop(stack, wr.v), mctx, "walking", "")
  /\ log' = Append(log, CurEqn.prim)
  /\ UNCHANGED <<w_in, w_res, gridVars, addrVars, atomVars, loadVars>>

\* The walker at a for equation that the rule refuses.
LowerForUnsupported ==
  /\ AtEqn
  /\ ~RuleMissing(CurEqn.prim)
  /\ CurEqn.prim = "for"
  /\ for_unsupported(CurEqn.params.reverse, CurEqn.params.unroll)
  /\ \E r \in {Invals} :
       Outcome(Raise(r.b, "NotImplementedError"), stack, mctx, "walking", "")
  /\ log' = Append(log, CurEqn.prim)
  /\ UNCHANGED <<w_in, w_res, gridVars, addrVars, atomVars, loadVars>>

\* The walker at a for equation, up to the rule's call of the walker on
\* the body.
LowerForEnter ==
  /\ AtEqn
  /\ ~RuleMissing(CurEqn.prim)
  /\ CurEqn.prim = "for"
  /\ ~for_unsupported(CurEqn.params.reverse, CurEqn.params.unroll)
  /\ \E r \in {Invals} :
       \E e \in {for_rule_enter(r.b, stack, mctx, CurEqn, r.v, EqnBlockInfos)} :
         Outcome(e.b, e.stack, e.m, "walking", "")
  /\ log' = Append(log, CurEqn.prim)
  /\ UNCHANGED <<w_in, w_res, gridVars, addrVars, atomVars, loadVars>>

\* The walker at an xla_call equation, up to the rule's call of the walker
\* on the called jaxpr.
LowerCall ==
  /\ AtEqn
  /\ ~RuleMissing(CurEqn.prim)
  /\ CurEqn.prim = "xla_call"
  /\ \E r \in {Invals} :
       \E e \in {_xla_call_lowering_rule(r.b, stack, mctx, CurEqn, r.v)} :
         Outcome(e.b, e.stack, e.m, "walking", "")
  /\ log' = Append(log, CurEqn.prim)
  /\ UNCHANGED <<w_in, w_res, gridVars, addrVars, atomVars, loadVars>>

\* The walk of a loop body returns: the outputs are read, the rule
\* finishes, and the enclosing walker writes the rule's results.
ReturnFor ==
  /\ AtReturn("for")
  /\ \E r \in {ReadAll(bld, Top.env, Top.jaxpr.outvars, <<>>)} :
       \E x \in {for_rule_exit(r.b, Top.saved, r.v)} :
         LET outer == stack[Len(stack) - 1]
         IN \E wr \in {WriteResults(x.b, outer, outer.jaxpr.eqns[outer.pc], x.v)} :
              Outcome(wr.b, ReplaceTop(Pop(stack), wr.v), mctx, "walking", "")
  /\ UNCHANGED <<w_in, w_res, log, gridVars, addrVars, atomVars, loadVars>>

\* The walk of an index map returns: _eval_index_map scales the block
\* indices, and the kernel builder goes on to its next call of the walker.
ReturnIndexMap ==
  /\ AtReturn("index_map")
  /\ \E r \in {ReadAll(bld, Top.env, Top.jaxpr.outvars, <<>>)} :
       \E f \in {_eval_index_map_finish(
                   r.b, r.v, w_in.grid_spec.block_mappings[mctx.k].block_shape)} :
         \E e \in {EvalIndexMaps(w_in, f.b,
                                 [mctx EXCEPT !.k = @ + 1,
                                              !.start_indices = Append(@, f.v)])} :
           Outcome(e.b, e.stack, e.m, "walking", "")
  /\ UNCHANGED <<w_in, w_res, log, gridVars, addrVars, atomVars, loadVars>>

\* The walk of the kernel body returns: it must return nothing; the
\* return terminator is emitted and the result handed back.
ReturnModule ==
  /\ AtReturn("body")
  /\ \E r \in {ReadAll(bld, Top.env, Top.jaxpr.outvars, <<>>)} :
       \E b1 \in {IF r.v # <<>> THEN Raise(r.b, "ValueError") ELSE ret(r.b)} :
         /\ Outcome(b1, <<>>, mctx, "done", "")
         /\ w_res' = IF b1.err # NoErr THEN w_res
                     ELSE TritonLoweringResult(mctx.new_grid)
  /\ UNCHANGED <<w_in, log, gridVars, addrVars, atomVars, loadVars>>

WalkNext ==
  \/ ModuleStart
  \/ LowerUnregistered
  \/ LowerEqn
  \/ LowerForUnsupported
  \/ LowerForEnter
  \/ LowerCall
  \/ ReturnFor
  \/ ReturnIndexMap
  \/ ReturnModule

\* ------------------------------------------------------------------
\* The kernels lowered
\* ------------------------------------------------------------------

\* Two primitives of jax.lax without a lowering rule, and one with.
Unregistered == {"abs", "floor"}
UnaryChoices == {"abs", "exp"}

\* The equations that may come next in a drawn body: a read, a write or
\* an accumulation on one of the Refs, a unary primitive, or an addition;
\* out is the variable of the result and atoms are the operands at hand.
EqnChoices(out, atoms, refs) ==
  {Eqn("get", <<r>>, <<out>>, StateParams(<<>>)) : r \in refs}
  \cup {Eqn("swap", <<r, a>>, <<out>>, StateParams(<<>>)) : r \in refs, a \in atoms}
  \cup {Eqn("addupdate", <<r, a>>, <<>>, StateParams(<<>>)) : r \in refs, a \in atoms}
  \cup {Eqn(p, <<a>>, <<out>>, NoParams) : p \in UnaryChoices, a \in atoms}
  \cup {Eqn("add", <<a, Literal(2)>>, <<out>>, NoParams) : a \in atoms}

\* The operands at hand after an equation: a literal and the last result.
NextAtoms(atoms, e) ==
  IF e.outvars = <<>> THEN atoms ELSE {Literal(3), e.outvars[1]}

\* The straight-line bodies of at most n equations over the given Refs;
\* the result of the equation at position pos is variable base + pos.
RECURSIVE Bodies(_, _, _, _, _)
Bodies(n, pos, base, atoms, refs) ==
  IF n = 0 THEN {<<>>}
  ELSE {<<>>} \cup
       UNION {{<<e>> \o rest :
                 rest \in Bodies(n - 1, pos + 1, base, NextAtoms(atoms, e), refs)}
              : e \in EqnChoices(Var(base + pos), atoms, refs)}

\* The two operands of every drawn kernel with a body: pointers to
\* scalars.
x_ref == RefVar(1, <<>>)
o_ref == RefVar(2, <<>>)

\* A kernel over x_ref and o_ref without block mappings, on a grid of one
\* axis.
BodyKernel(eqns) ==
  ModuleCall(Jaxpr(<<x_ref, o_ref>>, eqns, <<>>), <<<<>>, <<>>>>,
             GridSpec(<<2>>, <<NoBlockMapping, NoBlockMapping>>, {}))

\* The body of a for equation with n arguments: the index and one Ref per
\* argument, at most two equations, no outputs.
ForBodies(n) ==
  {Jaxpr(<<Var(30)>> \o [k \in 1..n |-> RefVar(30 + k, <<>>)], eqns, <<>>) :
     eqns \in Bodies(2, 1, 40, {Literal(3)}, {RefVar(30 + k, <<>>) : k \in 1..n})}

\* The for equations drawn: up to two arguments, each a pointer or the
\* value v; supported or not.
ForEqns(v) ==
  UNION {{Eqn("for", args, [k \in 1..Len(args) |-> Var(20 + k)],
              ForParams(body, 2, f[1], f[2])) :
            body \in ForBodies(Len(args)),
            f \in {<<FALSE, 1>>, <<TRUE, 1>>, <<FALSE, 2>>}}
         : args \in SeqsOf({x_ref, o_ref, v}, 0, 2)}

\* What may follow a for equation: nothing, or a write of its first
\* result (of a literal, if it has none).
AfterFor(e) ==
  {<<>>,
   <<Eqn("swap", <<o_ref, IF e.outvars = <<>> THEN Literal(3) ELSE e.outvars[1]>>,
         <<Var(13)>>, StateParams(<<>>))>>}

\* A condition or a body of a while equation.
WhileJaxprs ==
  {NoJaxpr,
   Jaxpr(<<Var(30)>>, <<Eqn("add", <<Var(30), Literal(2)>>, <<Var(31)>>, NoParams)>>,
         <<Var(31)>>)}

\* The while equations drawn: up to two arguments, each a pointer, the
\* value v or a literal, split into constants of the condition, constants
\* of the body and carried values in every way.
WhileEqns(v) ==
  UNION {{Eqn("while", args,
              [k \in 1..(Len(args) - n[1] - n[2]) |-> Var(20 + k)],
              WhileParams(n[1], c, n[2], body)) :
            n \in {m \in (0..Len(args)) \X (0..Len(args)) : m[1] + m[2] <= Len(args)},
            c \in WhileJaxprs, body \in WhileJaxprs}
         : args \in SeqsOf({x_ref, v, Literal(3)}, 0, 2)}

\* The jaxprs called by the drawn xla_call equations: of n inputs, handing
\* them back, the first as it is or its exponential.
CallJaxprs(n) ==
  LET ins == [k \in 1..n |-> Var(30 + k)]
  IN {Jaxpr(ins, <<>>, ins)} \cup
     (IF n = 0 THEN {}
      ELSE {Jaxpr(ins, <<Eqn("exp", <<ins[1]>>, <<Var(40)>>, NoParams)>>,
                  <<Var(40)>> \o Tail(ins))})

\* The xla_call equations drawn: up to two operands, each a pointer, the
\* value v or a literal; one result per operand.
CallEqns(v) ==
  UNION {{Eqn("xla_call", args, [k \in 1..Len(args) |-> Var(20 + k)], CallParams(j)) :
            j \in CallJaxprs(Len(args))}
         : args \in SeqsOf({x_ref, v, Literal(3)}, 0, 2)}

\* An index map of a one-axis grid onto a one-axis block: at most two
\* equations of add, mul and sub over the program id, literals and the
\* result before; the output is the last result, or the program id.
MapOperands(atoms) == {Literal(n) : n \in 2..MaxLiteral} \cup atoms
MapEqns(out, atoms) ==
  {Eqn(p, <<a, c>>, <<out>>, NoParams) :
     p \in {"add", "mul", "sub"}, a \in MapOperands(atoms), c \in MapOperands(atoms)}
MapKernel(eqns, out) ==
  ModuleCall(Jaxpr(<<RefVar(1, <<4>>)>>, <<>>, <<>>), <<<<4>>>>,
             GridSpec(<<2>>, <<BlockMapping(<<2>>, Jaxpr(<<Var(1)>>, eqns, <<out>>))>>, {}))

\* The index maps of a grid of n axes onto a block of r axes: the
\* coordinates of the grid axes come in, every output is the first or the
\* last of them or their sum.
IndexMaps(n, r) ==
  {Jaxpr([k \in 1..n |-> Var(k)],
         <<Eqn("add", <<Var(1), Var(n)>>, <<Var(n + 1)>>, NoParams)>>,
         outs) : outs \in SeqsOf({Var(1), Var(n), Var(n + 1)}, r, r)}

\* The operands of the drawn kernels on grids of several axes, each with
\* the shape of the whole array: one without a block mapping, one cut in
\* blocks of two elements, and two of two axes of which the block
\* collapses one.
GridOperands(id, n) ==
  {[v |-> RefVar(id, <<4>>), shape |-> <<4>>, mapping |-> NoBlockMapping]}
  \cup {[v |-> RefVar(id, <<2>>), shape |-> <<4>>, mapping |-> BlockMapping(<<2>>, im)] :
          im \in IndexMaps(n, 1)}
  \cup {[v |-> RefVar(id, <<2>>), shape |-> sb[1], mapping |-> BlockMapping(sb[2], im)] :
          sb \in {<<<<2, 4>>, <<Mapped, 2>>>>, <<<<4, 2>>, <<2, Mapped>>>>},
          im \in IndexMaps(n, 2)}

\* The grids of those kernels and the grid axes they collapse.
GridChoices ==
  {<<<<2, 2>>, {}>>, <<<<2, 2>>, {0}>>, <<<<2, 2>>, {1}>>,
   <<<<2, 1, 2>>, {1}>>, <<<<2, 2, 1, 2>>, {0, 2}>>}

\* A kernel of two operands whose body asks for one coordinate.
GridKernel(g, x, o, axis) ==
  ModuleCall(Jaxpr(<<x.v, o.v>>,
                   <<Eqn("program_id", <<>>, <<Var(11)>>, AxisParams(axis))>>, <<>>),
             <<x.shape, o.shape>>,
             GridSpec(g[1], <<x.mapping, o.mapping>>, g[2]))

\* The kernels that index a 2 x 2 Ref with integer indexers: the indexers
\* are read from a Ref of two elements, whole (a block of two) or at 0 (a
\* scalar), or are the literal 1; then x_ref is read, swapped or
\* accumulated on at one or two indexed axes.
IndexReads(out) ==
  {Eqn("get", <<RefVar(2, <<2>>)>>, <<ArrayVar(out, <<2>>)>>, StateParams(<<FALSE>>)),
   Eqn("get", <<RefVar(2, <<2>>), Literal(0)>>, <<Var(out)>>, StateParams(<<TRUE>>))}
IndexedAccesses(atoms) ==
  LET x == RefVar(1, <<2, 2>>)
      idxs == {<<a>> : a \in atoms} \cup {<<a, c>> : a \in atoms, c \in atoms}
      dims(ix) == IF Len(ix) = 1 THEN <<TRUE, FALSE>> ELSE <<TRUE, TRUE>>
  IN {Eqn("get", <<x>> \o ix, <<Var(13)>>, StateParams(dims(ix))) : ix \in idxs}
     \cup {Eqn("swap", <<x, Literal(3)>> \o ix, <<Var(13)>>, StateParams(dims(ix))) :
             ix \in idxs}
     \cup {Eqn("addupdate", <<x, Literal(3)>> \o ix, <<>>, StateParams(dims(ix))) :
             ix \in idxs}
IndexedKernel(eqns) ==
  ModuleCall(Jaxpr(<<RefVar(1, <<2, 2>>), RefVar(2, <<2>>)>>, eqns, <<>>),
             <<<<2, 2>>, <<2>>>>,
             GridSpec(<<2>>, <<NoBlockMapping, NoBlockMapping>>, {}))

\* A kernel whose program has outputs: what x_ref holds, once or twice.
OutputKernel(outs) ==
  ModuleCall(Jaxpr(<<x_ref, o_ref>>,
                   <<Eqn("get", <<x_ref>>, <<Var(11)>>, StateParams(<<>>))>>, outs),
             <<<<>>, <<>>>>,
             GridSpec(<<2>>, <<NoBlockMapping, NoBlockMapping>>, {}))

WalkStart(call) ==
  /\ w_in = call
  /\ w_pc = "start"
  /\ bld = NewBuilder
  /\ stack = <<>>
  /\ mctx = NoModuleContext
  /\ w_res = NoLoweringResult
  /\ exc = NoExc
  /\ log = <<>>
  /\ GridIdle
  /\ AddrIdle
  /\ AtomIdle
  /\ LoadIdle

\* A kernel with a loop in a loop: the outer loop carries the value read
\* before it, which its body overwrites; the inner loop gets through the
\* pointer, and a write through the pointer follows the inner loop in the
\* body of the outer one; the result of the outer loop is written last.
NestedForKernel ==
  LET inner_body == Jaxpr(<<Var(60), RefVar(61, <<>>)>>,
                          <<Eqn("get", <<RefVar(61, <<>>)>>, <<Var(71)>>, StateParams(<<>>))>>,
                          <<>>)
      inner == Eqn("for", <<RefVar(31, <<>>)>>, <<Var(41)>>,
                   ForParams(inner_body, 2, FALSE, 1))
      outer_body == Jaxpr(<<Var(30), RefVar(31, <<>>), RefVar(32, <<>>)>>,
                          <<inner,
                            Eqn("swap", <<RefVar(31, <<>>), Literal(3)>>, <<Var(42)>>,
                                StateParams(<<>>)),
                            Eqn("swap", <<RefVar(32, <<>>), Literal(3)>>, <<Var(43)>>,
                                StateParams(<<>>))>>,
                          <<>>)
  IN BodyKernel(<<Eqn("get", <<x_ref>>, <<Var(11)>>, StateParams(<<>>)),
                  Eqn("for", <<x_ref, Var(11)>>, <<Var(21), Var(22)>>,
                      ForParams(outer_body, 2, FALSE, 1)),
                  Eqn("swap", <<o_ref, Var(22)>>, <<Var(13)>>, StateParams(<<>>))>>)

WalkInit ==
  \/ \E eqns \in Bodies(MaxBodyEqns, 1, 10, {Literal(3)}, {x_ref, o_ref}) :
       WalkStart(BodyKernel(eqns))
  \/ \E e \in ForEqns(Var(11)) : \E rest \in AfterFor(e) :
       WalkStart(BodyKernel(<<Eqn("get", <<x_ref>>, <<Var(11)>>, StateParams(<<>>)), e>>
                            \o rest))
  \/ \E e \in WhileEqns(Var(11)) : \E rest \in AfterFor(e) :
       WalkStart(BodyKernel(<<Eqn("get", <<x_ref>>, <<Var(11)>>, StateParams(<<>>)), e>>
                            \o rest))
  \/ \E e \in CallEqns(Var(11)) : \E rest \in AfterFor(e) :
       WalkStart(BodyKernel(<<Eqn("get", <<x_ref>>, <<Var(11)>>, StateParams(<<>>)), e>>
                            \o rest))
  \/ \E g \in GridChoices :
       \E x \in GridOperands(1, Len(g[1])) :
         \E o \in {y \in GridOperands(2, Len(g[1])) : Len(y.shape) = 1} :
           \E axis \in 0..2 :
             WalkStart(GridKernel(g, x, o, axis))
  \/ \E e1 \in IndexReads(11) : \E e2 \in IndexReads(12) :
       \E e3 \in IndexedAccesses({e1.outvars[1], e2.outvars[1], Literal(1)}) :
         WalkStart(IndexedKernel(<<e1, e2, e3>>))
  \/ \E outs \in {<<Var(11)>>, <<Var(11), Var(11)>>} : WalkStart(OutputKernel(outs))
  \/ WalkStart(NestedForKernel)
  \/ WalkStart(MapKernel(<<>>, Var(1)))
  \/ \E e1 \in MapEqns(Var(2), {Var(1)}) :
       \/ WalkStart(MapKernel(<<e1>>, Var(2)))
       \/ \E e2 \in MapEqns(Var(3), {Var(1), Var(2)}) :
            WalkStart(MapKernel(<<e1, e2>>, Var(3)))

SpecWalk == WalkInit /\ [][WalkNext]_vars

\* ------------------------------------------------------------------
\* Properties of the walker and of the for rule
\* ------------------------------------------------------------------

\* The for equation whose body the innermost walker is walking, the
\* walker that took it up, and the operands that walker read for it.
InForBody == w_pc = "walking" /\ Len(stack) >= 2 /\ Top.kind = "for"
Outer == stack[Len(stack) - 1]
ForEqn == Outer.jaxpr.eqns[Outer.pc]
ForInvals == [k \in 1..Len(ForEqn.invars) |-> Outer.env[ForEqn.invars[k].v]]

\* Argument k of the for equation has a write or accumulate effect in the
\* body.
Written(e, k) ==
  RefEffects(e.params.jaxpr, e.params.jaxpr.invars[k + 1].v) \cap {"write", "accum"} # {}

\* The carried values of the loop: the operands of the for operation
\* after its three bounds.
Carried == SubSeq(bld.ir[Top.saved.for_op].args, 4, Len(bld.ir[Top.saved.for_op].args))

\* The innermost walker has just finished a for equation.
AfterForEqn ==
  /\ w_pc = "walking" /\ stack # <<>>
  /\ Top.pc > 1 /\ Top.pc - 1 <= Len(Top.jaxpr.eqns)
  /\ Top.jaxpr.eqns[Top.pc - 1].prim = "for"
DoneFor == Top.jaxpr.eqns[Top.pc - 1]

AtUnregistered == AtEqn /\ CurEqn.prim \notin triton_lowering_rules

\* C5 as stated: at an operation without a registered rule the lowering
\* fails with an error naming the primitive, and nothing is emitted for
\* the operation before the failure, not even constants for its literal
\* operands.
C5_Original ==
  [][AtUnregistered =>
       /\ w_pc' = "failed"
       /\ exc' = [type |-> "NotImplementedError", arg |-> CurEqn.prim]
       /\ bld'.ir = bld.ir]_vars

\* The lowering has failed at an operation without a rule after emitting
\* a constant for a literal operand of it.
C5_Witness ==
  /\ w_pc = "failed"
  /\ exc.type = "NotImplementedError" /\ exc.arg \in Unregistered
  /\ stack # <<>>
  /\ CurEqn.invars[1].lit
  /\ bld.ir[Len(bld.ir)].op = "const"
  /\ bld.ir[Len(bld.ir)].attr = <<CurEqn.invars[1].v>>

\* C6: an operation without a rule ends the lowering.  No equation is
\* taken up after it, in no body; the return terminator is not emitted
\* and no lowering result is returned.
C6_Abort ==
  /\ \A i \in 1..(Len(log) - 1) : log[i] \in triton_lowering_rules
  /\ (\E i \in 1..Len(log) : log[i] \notin triton_lowering_rules) =>
       /\ w_pc = "failed"
       /\ w_res = NoLoweringResult
       /\ \A n \in 1..Len(bld.ir) : bld.ir[n].op # "ret"

\* The lowering has failed at an operation without a rule in a loop body,
\* with equations after it in the loop body and after the loop.
C6_Witness ==
  /\ w_pc = "failed"
  /\ Len(stack) = 2
  /\ CurEqn.prim \in Unregistered
  /\ Top.pc < Len(Top.jaxpr.eqns)
  /\ stack[1].pc < Len(stack[1].jaxpr.eqns)
  /\ w_res = NoLoweringResult

\* The reference semantics of a straight-line arithmetic jaxpr: the value
\* of every variable after the first n equations, given the arguments.
RECURSIVE DirectEval(_, _, _)
DirectEval(jaxpr, args, n) ==
  IF n = 0
    THEN [id \in {jaxpr.invars[k].v : k \in 1..Len(jaxpr.invars)} |->
            args[CHOOSE k \in 1..Len(jaxpr.invars) : jaxpr.invars[k].v = id]]
  ELSE Bind(DirectEval(jaxpr, args, n - 1), LAMBDA e :
         LET eq == jaxpr.eqns[n]
             val(a) == IF a.lit THEN a.v ELSE e[a.v]
         IN With(e, eq.outvars[1].v,
                 Arith(eq.prim, val(eq.invars[1]), val(eq.invars[2]))))

\* The walker is inside an index map, an arithmetic program.
InIndexMap == w_pc = "walking" /\ stack # <<>> /\ Top.kind = "index_map"

\* add(mul(2, 3), 4)
ExampleMap ==
  <<Eqn("mul", <<Literal(2), Literal(3)>>, <<Var(2)>>, NoParams),
    Eqn("add", <<Var(2), Literal(4)>>, <<Var(3)>>, NoParams)>>

\* C9: while an arithmetic program is lowered, every variable the walker
\* has bound is bound to an operation that evaluates, at every program
\* instance, to the value direct evaluation of the program gives the
\* variable; the lowering of add(mul(2, 3), 4) evaluates to 10.
C9_RoundTrip ==
  InIndexMap =>
    \A p \in Instances(mctx.new_grid) :
      LET vals == EvalIR(bld.ir, p)
          args == [k \in 1..Len(mctx.program_ids) |-> vals[mctx.program_ids[k]][<<>>]]
          direct == DirectEval(Top.jaxpr, args, Top.pc - 1)
      IN /\ \A id \in DOMAIN Top.env : vals[Top.env[id]][<<>>] = direct[id]
         /\ (Top.jaxpr.eqns = ExampleMap /\ Top.pc = 3) => vals[Top.env[3]][<<>>] = 10

\* The walk of add(mul(2, 3), 4) is at its end and its result evaluates
\* to 10.
C9_Witness ==
  /\ InIndexMap
  /\ Top.jaxpr.eqns = ExampleMap
  /\ Top.pc = 3
  /\ EvalIR(bld.ir, <<0, 0, 0>>)[Top.env[3]][<<>>] = 10

\* The walker is at a for equation asking for reversed iteration or an
\* unroll factor other than one.
AtUnsupportedFor ==
  /\ AtEqn
  /\ CurEqn.prim = "for"
  /\ (CurEqn.params.reverse \/ CurEqn.params.unroll # 1)

\* C10: a for equation with reverse set or unroll other than 1 fails with
\* NotImplementedError and its rule emits nothing: after the step the IR
\* is what the walker's reading of the operands left, without bounds,
\* loop operation or block; the loop is not lowered.
C10_FailsFast ==
  [][AtUnsupportedFor =>
       /\ w_pc' = "failed"
       /\ exc'.type = "NotImplementedError"
       /\ bld'.ir = Invals.b.ir
       /\ bld'.nblk = bld.nblk
       /\ \A n \in (Len(bld.ir) + 1)..Len(bld'.ir) :
            bld'.ir[n].op \notin {"for", "to_index"}]_vars

\* The lowering has failed at a for equation with an unroll factor of 2.
C10_Witness ==
  /\ w_pc = "failed"
  /\ exc.type = "NotImplementedError"
  /\ stack # <<>>
  /\ CurEqn.prim = "for"
  /\ CurEqn.params.unroll = 2
  /\ \A n \in 1..Len(bld.ir) : bld.ir[n].op \notin {"for", "to_index"}

\* The walker is at a while equation.
AtWhile == AtEqn /\ CurEqn.prim = "while"

\* C11: a while equation, whatever its arguments and parameters, fails
\* with NotImplementedError and its rule emits nothing: after the step the
\* IR is what the walker's reading of the operands left (a constant for
\* every literal operand, nothing else), no block has been created and the
\* insertion point has not moved.
C11_WhileFailsFast ==
  [][AtWhile =>
       /\ w_pc' = "failed"
       /\ exc'.type = "NotImplementedError"
       /\ bld'.ir = Invals.b.ir
       /\ bld'.nblk = bld.nblk
       /\ bld'.blk = bld.blk
       /\ bld'.merged = bld.merged
       /\ \A n \in (Len(bld.ir) + 1)..Len(bld'.ir) : bld'.ir[n].op = "const"
       /\ stack' = stack]_vars

\* The lowering has failed at a while equation with a condition, a body
\* and a carried value, and with an equation after it; one block, the
\* entry block, exists.
C11_Witness ==
  /\ w_pc = "failed"
  /\ exc.type = "NotImplementedError"
  /\ stack # <<>>
  /\ CurEqn.prim = "while"
  /\ CurEqn.params.cond_jaxpr # NoJaxpr /\ CurEqn.params.jaxpr # NoJaxpr
  /\ CurEqn.outvars # <<>>
  /\ Top.pc < Len(Top.jaxpr.eqns)
  /\ bld.nblk = 1

\* The walker is at an equation whose rule calls the walker on a nested
\* body: a supported for equation or an xla_call equation.
AtNestedCall ==
  /\ AtEqn
  /\ \/ CurEqn.prim = "xla_call"
     \/ CurEqn.prim = "for" /\ ~for_unsupported(CurEqn.params.reverse, CurEqn.params.unroll)

\* The ids of the inputs of a jaxpr.
InvarIds(jaxpr) == {jaxpr.invars[k].v : k \in 1..Len(jaxpr.invars)}

\* The frame is that of a walker just entered on a body with the given
\* arguments: the environment holds the inputs of the body and nothing
\* else, input k bound to argument k, and there is one block info per input.
FreshFrame(f, args) ==
  /\ f.pc = 1
  /\ Len(args) = Len(f.jaxpr.invars)
  /\ DOMAIN f.env = InvarIds(f.jaxpr)
  /\ DOMAIN f.block_info_env = InvarIds(f.jaxpr)
  /\ \A k \in 1..Len(f.jaxpr.invars) : f.env[f.jaxpr.invars[k].v] = args[k]

\* C12 as stated: every equation with a nested body, a for loop or a
\* nested call, enters the walker on the body with a fresh environment,
\* one block info per input of the body and input k bound to argument k:
\* for a call the operands of the equation, for a loop the loop index
\* followed by one value per operand.
C12_Original ==
  [][AtNestedCall =>
       /\ w_pc' = "walking"
       /\ Len(stack') = Len(stack) + 1
       /\ LET f == stack'[Len(stack')]
          IN IF CurEqn.prim = "xla_call" THEN FreshFrame(f, Invals.v)
             ELSE \E index \in 1..Len(bld'.ir) :
                    \E body_args \in [1..Len(CurEqn.invars) -> 1..Len(bld'.ir)] :
                      /\ bld'.ir[index].op = "index_to_si"
                      /\ \A k \in 1..Len(CurEqn.invars) :
                           \/ body_args[k] = Invals.v[k]
                           \/ bld'.ir[body_args[k]].op = "block_arg"
                      /\ FreshFrame(f, <<index>> \o body_args)]_vars

\* The lowering has failed with TypeError at an xla_call equation of two
\* operands whose called jaxpr has two inputs: no walker was entered on
\* the called jaxpr.
C12_Witness ==
  /\ w_pc = "failed"
  /\ exc.type = "TypeError"
  /\ Len(stack) = 1
  /\ CurEqn.prim = "xla_call"
  /\ Len(CurEqn.invars) = 2
  /\ Len(CurEqn.params.jaxpr.invars) = 2

\* The values the walker holds for the operands of the for equation it has
\* just finished, and which of them the rule took for loop arguments.
DoneForArgs == [k \in 1..Len(DoneFor.invars) |-> Top.env[DoneFor.invars[k].v]]
DoneForIsLoopArg == ForLocals(DoneFor, DoneForArgs).is_loop_arg

\* C13: a for equation that has been lowered has one output per operand,
\* in the order of the operands.  The output at the position of an operand
\* that is no loop argument is the value of the operand itself; the output
\* at the position of the i-th loop argument is result i of the for
\* operation, the result of the carried value that the operand
\* initialises.  The rule does not fail while it puts its outputs together.
C13_ForOutputs ==
  /\ AfterForEqn =>
       /\ Len(DoneFor.outvars) = Len(DoneFor.invars)
       /\ \A k \in 1..Len(DoneFor.invars) :
            LET out == Top.env[DoneFor.outvars[k].v]
                i == Cardinality({j \in 1..k : DoneForIsLoopArg[j]})
            IN IF DoneForIsLoopArg[k]
                 THEN /\ bld.ir[out].op = "for_result"
                      /\ bld.ir[out].attr = <<i - 1>>
                      /\ bld.ir[bld.ir[out].args[1]].op = "for"
                      /\ bld.ir[bld.ir[out].args[1]].args[3 + i] = DoneForArgs[k]
                      /\ bld.ir[out].ty = bld.ir[DoneForArgs[k]].ty
               ELSE out = DoneForArgs[k]
  /\ (w_pc = "failed" /\ Len(stack) >= 2 /\ Top.kind = "for") =>
       Top.pc <= Len(Top.jaxpr.eqns)

\* A loop of two operands has been lowered, the first a pointer that is
\* handed back as it is, the second a value that the loop carries.
C13_Witness ==
  /\ AfterForEqn
  /\ Len(DoneFor.invars) = 2
  /\ DoneForIsLoopArg = <<FALSE, TRUE>>
  /\ DoneFor.invars[1].ref
  /\ Top.env[DoneFor.outvars[1].v] = Top.env[DoneFor.invars[1].v]
  /\ bld.ir[Top.env[DoneFor.outvars[2].v]].op = "for_result"

\* The constants that reading the atoms makes, one for every literal, in
\* the order of the atoms.
RECURSIVE LiteralConsts(_, _)
LiteralConsts(b, atoms) ==
  IF atoms = <<>> THEN <<>>
  ELSE (IF Head(atoms).lit
          THEN <<Op(b, "const", <<>>, <<Head(atoms).v>>, ScalarTy("i32"))>> ELSE <<>>)
         \o LiteralConsts(b, Tail(atoms))

IsPrefix(s, t) == Len(s) <= Len(t) /\ SubSeq(t, 1, Len(s)) = s

\* The ids of the variables in a list of atoms.
VarIds(atoms) == {atoms[k].v : k \in {j \in 1..Len(atoms) : ~atoms[j].lit}}

\* Frame g is frame f after the equation f is at: the next equation is
\* up, the outputs of the equation are bound, every earlier binding is as
\* it was and nothing else is bound.
Advanced(f, g) ==
  /\ g.jaxpr = f.jaxpr
  /\ g.pc = f.pc + 1
  /\ DOMAIN g.env = DOMAIN f.env \cup VarIds(f.jaxpr.eqns[f.pc].outvars)
  /\ \A id \in DOMAIN f.env \ VarIds(f.jaxpr.eqns[f.pc].outvars) : g.env[id] = f.env[id]
  /\ g.block_info_env = f.block_info_env

\* The tl.tensors a walker at its return hands back are the bindings of
\* the outputs of its jaxpr (a constant for a literal output): vals are
\* operations of ir.
Returned(ir, f, vals) ==
  \A j \in 1..Len(vals) :
    \E k \in 1..Len(f.jaxpr.outvars) :
      LET a == f.jaxpr.outvars[k]
      IN IF a.lit THEN ir[vals[j]].op = "const" /\ ir[vals[j]].attr = <<a.v>>
         ELSE vals[j] = f.env[a.v]

\* One step of a lowering, as C14 has it.
C14_Step ==
  /\ AtEqn =>
       \* the equation is taken up once, after those before it
       /\ log' = Append(log, CurEqn.prim)
       \* every operand that is a variable is bound
       /\ VarIds(CurEqn.invars) \subseteq DOMAIN Top.env
       \* every literal operand is made a constant, and the environment is
       \* not touched by the reading
       /\ Invals.b.ir = bld.ir \o LiteralConsts(bld, CurEqn.invars)
       /\ IsPrefix(Invals.b.ir, bld'.ir)
       /\ \A k \in 1..Len(CurEqn.invars) :
            Invals.v[k] = IF CurEqn.invars[k].lit
                            THEN Len(bld.ir) + Len(LiteralConsts(bld, SubSeq(CurEqn.invars, 1, k)))
                          ELSE Top.env[CurEqn.invars[k].v]
       \* then the next equation is up with the outputs bound, or the rule
       \* has called the walker on a nested body, or the lowering failed
       /\ \/ w_pc' = "failed" /\ stack' = stack
          \/ /\ w_pc' = "walking"
             /\ CurEqn.prim \notin {"for", "xla_call"}
             /\ Len(stack') = Len(stack)
             /\ Pop(stack') = Pop(stack)
             /\ Advanced(Top, stack'[Len(stack')])
          \/ /\ w_pc' = "walking"
             /\ CurEqn.prim \in {"for", "xla_call"}
             /\ Pop(stack') = stack
  /\ AtReturn("for") =>
       /\ log' = log
       /\ \/ w_pc' = "failed" /\ stack' = stack
          \/ /\ w_pc' = "walking"
             /\ Len(stack') = Len(stack) - 1
             /\ Pop(stack') = Pop(Pop(stack))
             /\ Advanced(Outer, stack'[Len(stack')])
             /\ \A n \in (Len(bld.ir) + 1)..Len(bld'.ir) :
                  bld'.ir[n].op = "yield" => Returned(bld'.ir, Top, bld'.ir[n].args)
  /\ (AtReturn("index_map") /\ w_pc' = "walking") =>
       /\ log' = log
       /\ Len(mctx'.start_indices[mctx.k]) = Len(Top.jaxpr.outvars)
       /\ Returned(bld'.ir, Top,
                   [j \in 1..Len(Top.jaxpr.outvars) |->
                      LET si == mctx'.start_indices[mctx.k][j]
                      IN IF bld'.ir[si].op = "mul" /\ si > Len(bld.ir)
                           THEN bld'.ir[si].args[1] ELSE si])
  /\ AtReturn("body") =>
       /\ log' = log
       /\ w_pc' = "done"
       /\ Top.jaxpr.outvars = <<>>

\* The primitives of the equations of a kernel without loops and calls.
Straight(jaxpr) == \A k \in 1..Len(jaxpr.eqns) : jaxpr.eqns[k].prim \notin {"for", "xla_call"}

\* The lowering of a kernel without loops, calls and index maps, unless it
\* has failed, has taken up the first equations of the kernel in their
\* order, each once, and all of them when it is done.
C14_InOrder ==
  (/\ w_pc \in {"walking", "done"}
   /\ w_in.grid_spec.block_mappings = <<NoBlockMapping, NoBlockMapping>>
   /\ Straight(w_in.jaxpr)) =>
    /\ IsPrefix(log, [k \in 1..Len(w_in.jaxpr.eqns) |-> w_in.jaxpr.eqns[k].prim])
    /\ (w_pc = "done") => (Len(log) = Len(w_in.jaxpr.eqns))

\* The environment of every running walker binds the inputs of its jaxpr
\* and the outputs of the equations before the one it is at, nothing else.
C14_Bound ==
  (w_pc = "walking" /\ stack # <<>>) =>
    \A d \in 1..Len(stack) :
      DOMAIN stack[d].env =
        InvarIds(stack[d].jaxpr) \cup
          UNION {VarIds(stack[d].jaxpr.eqns[n].outvars) :
                   n \in {m \in 1..Len(stack[d].jaxpr.eqns) : m < stack[d].pc}}

\* C14: the walker takes up every equation once and in program order (the
\* lowering of a kernel without loops, calls and index maps that has not
\* failed has taken up the first equations of the kernel, all of them when
\* it is done); every operand that is a variable is bound when it is read,
\* by an input or an earlier equation; a literal operand is made a
\* constant at every read and the reading binds nothing; after an equation
\* exactly its outputs are bound in addition; and a walker that returns
\* hands back the bindings of the outputs of its jaxpr.
C14_Walk ==
  /\ [](C14_InOrder /\ C14_Bound)
  /\ [][C14_Step]_vars

\* A kernel of two equations, the first an addition of two literals, has
\* been lowered: both equations were taken up in order and the IR starts,
\* after the two arguments of the kernel and the program id, with the two
\* constants of the literals.
C14_Witness ==
  /\ w_pc = "done"
  /\ Len(w_in.jaxpr.eqns) = 2
  /\ w_in.jaxpr.eqns[1].prim = "add"
  /\ w_in.jaxpr.eqns[1].invars = <<Literal(3), Literal(2)>>
  /\ w_in.jaxpr.eqns[2].invars[1] = w_in.jaxpr.eqns[1].outvars[1]
  /\ log = <<"add", w_in.jaxpr.eqns[2].prim>>
  /\ \E n \in 1..Len(bld.ir) :
       /\ bld.ir[n].op = "const" /\ bld.ir[n].attr = <<3>>
       /\ bld.ir[n + 1].op = "const" /\ bld.ir[n + 1].attr = <<2>>
       /\ bld.ir[n + 2].op = "add" /\ bld.ir[n + 2].args = <<n, n + 1>>

\* The walker is in the body of the kernel or below it.
InBody == stack # <<>> /\ stack[1].kind = "body"

\* The coordinates of the axes of the declared grid at program instance p,
\* as the emitted operations recover them.
Coordinates(p) ==
  [k \in 1..Len(mctx.program_ids) |-> EvalIR(bld.ir, p)[mctx.program_ids[k]][<<>>]]

\* Output a of the index map of operand j, evaluated directly on the
\* coordinates of every grid axis.
IndexMapResult(j, a, p) ==
  LET im == w_in.grid_spec.block_mappings[j].index_map_jaxpr
  IN DirectEval(im, Coordinates(p), Len(im.eqns))[im.outvars[a].v]

\* C18: in the body of the kernel an operand without a block mapping has
\* no block info; an operand with one has a start offset per axis of its
\* block shape: the result of the index map for the axis times the extent
\* of the block along it, or the result itself if the axis is collapsed.
C18_StartOffsets ==
  InBody =>
    \A j \in 1..Len(w_in.jaxpr.invars) :
      LET info == stack[1].block_info_env[w_in.jaxpr.invars[j].v]
          bm == w_in.grid_spec.block_mappings[j]
      IN IF bm.none THEN info.none
         ELSE /\ ~info.none
              /\ info.full_shape = w_in.in_shapes[j]
              /\ info.block_shape = bm.block_shape
              /\ Len(info.start_indices) = Len(bm.block_shape)
              /\ \A a \in 1..Len(bm.block_shape) :
                   \A p \in Instances(mctx.new_grid) :
                     EvalIR(bld.ir, p)[info.start_indices[a]][<<>>] =
                       IF bm.block_shape[a] = Mapped THEN IndexMapResult(j, a, p)
                       ELSE IndexMapResult(j, a, p) * bm.block_shape[a]

\* On a 2 x 2 grid the first operand has a collapsed axis mapped to i and
\* an axis in blocks of 2 mapped to i + j, the second has no mapping: at
\* instance (1, 1) the start offsets are 1 and (1 + 1) * 2.
C18_Witness ==
  /\ InBody
  /\ w_in.grid_spec.grid = <<2, 2>>
  /\ w_in.grid_spec.block_mappings[1].block_shape = <<Mapped, 2>>
  /\ w_in.grid_spec.block_mappings[1].index_map_jaxpr.outvars = <<Var(1), Var(3)>>
  /\ w_in.grid_spec.block_mappings[2].none
  /\ stack[1].block_info_env[2].none
  /\ LET info == stack[1].block_info_env[1]
         vals == EvalIR(bld.ir, <<1, 1, 0>>)
     IN /\ vals[info.start_indices[1]][<<>>] = 1
        /\ vals[info.start_indices[2]][<<>>] = 4

\* The grid axes that are not collapsed, and the k-th of them (from 0).
UnmappedAxes ==
  {i \in 0..(Len(w_in.grid_spec.grid) - 1) : i \notin w_in.grid_spec.mapped_dims}
KthUnmapped(k) ==
  CHOOSE i \in UnmappedAxes : Cardinality({j \in UnmappedAxes : j < i}) = k

\* The walker is at a program_id equation.
AtProgramId == AtEqn /\ CurEqn.prim = "program_id"

\* The list of coordinates the rules see holds the coordinates of the
\* grid axes that are not collapsed, in grid order.
C19_Local ==
  (w_pc # "start" /\ mctx # NoModuleContext) =>
    /\ Len(mctx.program_ids) = Len(w_in.grid_spec.grid)
    /\ Len(mctx.local_program_ids) = Cardinality(UnmappedAxes)
    /\ \A k \in 0..(Cardinality(UnmappedAxes) - 1) :
         mctx.local_program_ids[k + 1] = mctx.program_ids[KthUnmapped(k) + 1]
    /\ Len(w_in.grid_spec.grid) <= 3 =>
         \A p \in Instances(mctx.new_grid) :
           \A i \in 1..Len(w_in.grid_spec.grid) : Coordinates(p)[i] = p[i]

\* An index map is walked with the coordinates of every grid axis.
C19_IndexMapArgs ==
  InIndexMap =>
    /\ Len(Top.jaxpr.invars) = Len(w_in.grid_spec.grid)
    /\ \A i \in 1..Len(Top.jaxpr.invars) :
         Top.env[Top.jaxpr.invars[i].v] = mctx.program_ids[i]

\* program_id with axis k gives the coordinate of the k-th grid axis that
\* is not collapsed, and emits nothing.
C19_Step ==
  (AtProgramId /\ CurEqn.params.axis < Cardinality(UnmappedAxes)) =>
    /\ w_pc' = "walking"
    /\ bld' = bld
    /\ stack'[Len(stack)].env[CurEqn.outvars[1].v] =
         mctx.program_ids[KthUnmapped(CurEqn.params.axis) + 1]

\* C19: the coordinates the rules see are those of the grid axes that are
\* not collapsed, in grid order, so that program_id with axis k yields the
\* coordinate of the k-th such axis; index maps get the coordinates of all
\* grid axes.
C19_ProgramIds ==
  /\ [](C19_Local /\ C19_IndexMapArgs)
  /\ [][C19_Step]_vars

\* On the grid (2, 1, 2) with axis 1 collapsed, program_id with axis 1 has
\* given the coordinate of grid axis 2.
C19_Witness ==
  /\ w_pc = "walking" /\ InBody /\ Top.pc = 2
  /\ w_in.grid_spec.grid = <<2, 1, 2>>
  /\ w_in.grid_spec.mapped_dims = {1}
  /\ w_in.jaxpr.eqns[1].prim = "program_id"
  /\ w_in.jaxpr.eqns[1].params.axis = 1
  /\ Top.env[11] = mctx.program_ids[3]
  /\ EvalIR(bld.ir, <<1, 0, 1>>)[Top.env[11]][<<>>] = 1
  /\ EvalIR(bld.ir, <<1, 0, 0>>)[Top.env[11]][<<>>] = 0

\* The walker is at a get, swap or addupdate equation with integer
\* indexers; the operands that are its indexers (after the Ref, and after
\* the value of a swap or addupdate); the set of their shapes.
AtIndexedAccess ==
  /\ AtEqn
  /\ CurEqn.prim \in {"get", "swap", "addupdate"}
  /\ \E k \in 1..Len(CurEqn.params.indexed_dims) : CurEqn.params.indexed_dims[k]
GatherOperands ==
  SubSeq(CurEqn.invars, IF CurEqn.prim = "get" THEN 2 ELSE 3, Len(CurEqn.invars))
GatherShapeSet == {GatherOperands[k].shape : k \in 1..Len(GatherOperands)}

\* The sizes of the axes of the Ref the equation leaves unindexed.
UnindexedSizes ==
  LET dims == CurEqn.params.indexed_dims
      keep == {k \in 1..Len(dims) : ~dims[k]}
      kth(m) == CHOOSE k \in keep : Cardinality({j \in keep : j < k}) = m - 1
  IN [m \in 1..Cardinality(keep) |-> CurEqn.invars[1].shape[kth(m)]]

\* C20: a get, swap or addupdate whose integer indexers do not all have
\* one shape fails with ValueError having emitted nothing but the
\* constants of its literal operands: no address arithmetic, no load, no
\* store.  If it emits anything more, or succeeds, the indexers have
\* exactly one shape, and the load it emits has that shape followed by the
\* sizes of the unindexed axes.
C20_Step ==
  AtIndexedAccess =>
    /\ Cardinality(GatherShapeSet) # 1 =>
         /\ w_pc' = "failed"
         /\ exc'.type = "ValueError"
         /\ bld'.ir = Invals.b.ir
    /\ (w_pc' = "walking" \/ Len(bld'.ir) > Len(Invals.b.ir)) =>
         /\ Cardinality(GatherShapeSet) = 1
         /\ w_pc' = "walking"
         /\ \E n \in (Len(Invals.b.ir) + 1)..Len(bld'.ir) :
              /\ bld'.ir[n].op = "load"
              /\ bld'.ir[n].ty.shape =
                   (CHOOSE g \in GatherShapeSet : TRUE) \o UnindexedSizes
C20_OneGatherShape == [][C20_Step]_vars

\* x_ref[i, j] with i a block of two and j a scalar has failed, and the
\* only loads emitted are the two that read the indexers.
C20_Witness ==
  /\ w_pc = "failed" /\ exc.type = "ValueError"
  /\ stack # <<>> /\ Top.pc = 3
  /\ CurEqn.prim = "swap"
  /\ CurEqn.invars = <<RefVar(1, <<2, 2>>), Literal(3), ArrayVar(11, <<2>>), Var(12)>>
  /\ Cardinality({n \in 1..Len(bld.ir) : bld.ir[n].op = "load"}) = 2
  /\ \A n \in 1..Len(bld.ir) : bld.ir[n].op # "store"

\* The positions of the operations of one kind in the IR.
OpsOf(ir, name) == {n \in 1..Len(ir) : ir[n].op = name}

\* A program with outputs is refused before anything is emitted.
C21_NoOutputs ==
  (w_pc # "start" /\ w_in.jaxpr.outvars # <<>>) =>
    /\ w_pc = "failed"
    /\ exc.type = "AssertionError"
    /\ bld.ir = <<>>
    /\ w_res = NoLoweringResult

\* The kernel arguments are the first operations: one per input of the
\* program, in order, each with the alignment hint 16.
C21_Arguments ==
  (w_pc # "start" /\ w_in.jaxpr.outvars = <<>>) =>
    /\ OpsOf(bld.ir, "arg") = 1..Len(w_in.jaxpr.invars)
    /\ \A n \in OpsOf(bld.ir, "arg") : bld.ir[n].attr[2] = 16

\* There is no return before the lowering is done, and then there is one,
\* the last operation, in the entry block.
C21_Return ==
  IF w_pc = "done"
    THEN /\ OpsOf(bld.ir, "ret") = {Len(bld.ir)}
         /\ bld.ir[Len(bld.ir)].blk = 1
         /\ ~w_res.none
  ELSE OpsOf(bld.ir, "ret") = {}

\* The return is emitted by the step at which the walk of the whole body
\* has taken up its last equation and returns to the kernel builder.
C21_Step ==
  OpsOf(bld'.ir, "ret") # OpsOf(bld.ir, "ret") =>
    /\ Len(stack) = 1
    /\ Top.kind = "body"
    /\ Top.jaxpr = w_in.jaxpr
    /\ Top.pc = Len(w_in.jaxpr.eqns) + 1
    /\ w_pc' = "done"

\* C21: the kernel builder refuses a program with outputs, declares one
\* kernel argument per input of the program, each with the alignment hint
\* 16, and emits the return without value exactly once, after the walk of
\* the whole body.
C21_KernelBuilder ==
  /\ [](C21_NoOutputs /\ C21_Arguments /\ C21_Return)
  /\ [][C21_Step]_vars

\* A kernel of two inputs and two equations is lowered: two arguments
\* with the hint, both equations taken up, then the return.
C21_Witness ==
  /\ w_pc = "done"
  /\ Len(w_in.jaxpr.invars) = 2
  /\ Len(w_in.jaxpr.eqns) = 2
  /\ Len(log) = 2
  /\ bld.ir[1].op = "arg" /\ bld.ir[1].attr[2] = 16
  /\ bld.ir[2].op = "arg" /\ bld.ir[2].attr[2] = 16
  /\ bld.ir[Len(bld.ir)].op = "ret"
  /\ Cardinality(OpsOf(bld.ir, "ret")) = 1

\* ------------------------------------------------------------------
\* atomic_rmw: abstract evaluation when traced, then the lowering rule
\* ------------------------------------------------------------------

\* AtomicOpType
AtomicOpType == {"xchg", "add", "max", "min", "and", "or", "xor"}

\* _ATOMIC_OP_MAPPING: the Triton atomic of every kind.
_ATOMIC_OP_MAPPING ==
  [t \in AtomicOpType |->
     CASE t = "xchg" -> "atomic_xchg"
       [] t = "add" -> "atomic_add"
       [] t = "max" -> "atomic_max"
       [] t = "min" -> "atomic_min"
       [] t = "and" -> "atomic_and"
       [] t = "or" -> "atomic_or"
       [] t = "xor" -> "atomic_xor"]

\* The element types of the drawn Refs.
DTypes ==
  {"bool", "int8", "int16", "int32", "int64", "uint8", "uint32",
   "float16", "bfloat16", "float32", "float64"}

\* jax_core.ShapedArray(shape, dtype)
ShapedArray(shape, dtype) == [shape |-> shape, dtype |-> dtype]

\* The two tests of _atomic_abstract_eval with the second left out.
_atomic_unsupported_F16Only(dtype, atomic_type) ==
  dtype = "float16" /\ atomic_type # "add"

\* The two tests of _atomic_abstract_eval on the dtype of the Ref: float16
\* with a kind other than ADD, and bool, int8, int16 or bfloat16 with any
\* kind.
_atomic_unsupported(dtype, atomic_type) ==
  \/ dtype = "float16" /\ atomic_type # "add"
  \/ dtype \in {"bool", "int8", "int16", "bfloat16"}

\* _swap_abstract_eval: the value must have the shape the indexer selects
\* and the dtype of the Ref.
_swap_abstract_eval(ref_aval, val_aval, idx) ==
  IF get_indexer_shape(idx) # val_aval.shape THEN "ValueError"
  ELSE IF ref_aval.dtype # val_aval.dtype THEN "ValueError"
  ELSE NoErr

\* _atomic_abstract_eval: the exception it raises, if any.
_atomic_abstract_eval(ref_aval, val_aval, idx, atomic_type) ==
  IF _atomic_unsupported(ref_aval.dtype, atomic_type) THEN "ValueError"
  ELSE _swap_abstract_eval(ref_aval, val_aval, idx)

\* The indexer of a drawn call: the whole of every axis.
FullIndexer(shape) ==
  NDIndexer([k \in 1..Len(shape) |-> from_slice(shape[k])], shape, <<>>)

\* The operands of the rule in the builder when the walker calls it: the
\* pointer, the value and, if the call is masked, the mask.
AtomicOperands(c) ==
  Bind(Given(NewBuilder, "arg", "ptr", <<>>, <<0>>), LAMBDA b1 :
  Bind(Given(b1, "data", "i32", c.val_aval.shape,
             [j \in 1..SeqProd(c.val_aval.shape) |-> j]), LAMBDA b2 :
    IF c.masked
      THEN Given(b2, "data", "i1", c.val_aval.shape,
                 [j \in 1..SeqProd(c.val_aval.shape) |-> j % 2])
    ELSE b2))

\* _atomic_lowering_rule(ctx, ptr, value, *args, args_tree, masked,
\* atomic_type): the pointers of the indexed elements, then the Triton
\* atomic of the kind on them.
_atomic_lowering_rule(b, ptr, value, idx, mask_rest, array_shape, masked, atomic_type) ==
  Bind(_compute_pointers_from_indices(b, ptr, NoBlockInfo, idx, array_shape), LAMBDA p :
    IF masked /\ Len(mask_rest) # 1 THEN Raise(p.b, "AssertionError")
    ELSE IF atomic_type \notin DOMAIN _ATOMIC_OP_MAPPING
      THEN Raise(p.b, "NotImplementedError")
    ELSE Emit(p.b, _ATOMIC_OP_MAPPING[atomic_type],
              <<p.v, value>> \o (IF masked THEN mask_rest ELSE <<>>),
              <<>>, [k |-> "i32", shape |-> TyOf(p.b, p.v).shape]))

\* A call atomic_rmw(x_ref, idx, val, mask=..., atomic_type=...).
AtomicCall(ref_aval, val_aval, masked, atomic_type) ==
  [ref_aval |-> ref_aval, val_aval |-> val_aval, masked |-> masked,
   atomic_type |-> atomic_type]

AtomInit ==
  /\ \E shape \in {<<>>, <<2>>}, dtype \in DTypes, atomic_type \in AtomicOpType :
       \E vshape \in {shape, <<2, 2>>}, vdtype \in {dtype, "int32"}, masked \in BOOLEAN :
         t_in = AtomicCall(ShapedArray(shape, dtype), ShapedArray(vshape, vdtype),
                           masked, atomic_type)
  /\ t_pc = "start"
  /\ t_bld = NewBuilder
  /\ t_exc = NoErr
  /\ GridIdle
  /\ AddrIdle
  /\ WalkIdle
  /\ LoadIdle

\* atomic_rmw binds atomic_rmw_p while the kernel is traced:
\* _atomic_abstract_eval accepts the call into the jaxpr or raises.  No
\* builder exists yet.
TraceAtomic ==
  /\ t_pc = "start"
  /\ \E e \in {_atomic_abstract_eval(t_in.ref_aval, t_in.val_aval,
                                     FullIndexer(t_in.ref_aval.shape), t_in.atomic_type)} :
       /\ t_exc' = e
       /\ t_pc' = IF e # NoErr THEN "failed" ELSE "traced"
  /\ UNCHANGED <<t_in, t_bld, gridVars, addrVars, walkVars, loadVars>>

\* The walker reaches the traced equation and applies _atomic_lowering_rule.
LowerAtomic ==
  /\ t_pc = "traced"
  /\ \E b0 \in {AtomicOperands(t_in)} :
       \E b1 \in {_atomic_lowering_rule(b0, 1, 2, FullIndexer(t_in.ref_aval.shape),
                                        IF t_in.masked THEN <<3>> ELSE <<>>,
                                        t_in.ref_aval.shape, t_in.masked,
                                        t_in.atomic_type)} :
         /\ t_bld' = b1
         /\ t_exc' = b1.err
         /\ t_pc' = IF b1.err # NoErr THEN "failed" ELSE "lowered"
  /\ UNCHANGED <<t_in, gridVars, addrVars, walkVars, loadVars>>

AtomNext == TraceAtomic \/ LowerAtomic

SpecAtomic == AtomInit /\ [][AtomNext]_vars

Some(v) == [none |-> FALSE, v |-> v]
Nothing == [none |-> TRUE, v |-> <<>>]

\* A call load(x_ref, idx, mask=mask, other=other) on a Ref of one axis
\* whose memory holds mem, idx the whole axis; a mask holds 1 for an active
\* lane and 0 for an inactive one.
LoadCall(mem, mask, other) == [mem |-> mem, mask |-> mask, other |-> other]

NoLoadArgs == [masked |-> FALSE, mask_other |-> <<>>]

\* What a lane that Triton leaves undefined may hold.
Undefined == {0, 3}

\* load(x_ref, idx, mask=..., other=...): the mask and the fallback that
\* are given follow the indexer in the operands, and masked says whether
\* there is a mask; a fallback without a mask is refused.
load_bind(c) ==
  IF ~c.other.none /\ c.mask.none THEN [err |-> "AssertionError", args |-> NoLoadArgs]
  ELSE [err |-> NoErr,
        args |-> [masked |-> ~c.mask.none,
                  mask_other |-> (IF c.mask.none THEN <<>> ELSE <<c.mask.v>>)
                                   \o (IF c.other.none THEN <<>> ELSE <<c.other.v>>)]]

\* The operands of the rule in the builder when the walker calls it: the
\* pointer, then the mask and the fallback that the equation has.
RECURSIVE LoadOperands(_, _, _, _)
LoadOperands(b, mask_other, k, acc) ==
  IF k > Len(mask_other) THEN Ret(b, acc)
  ELSE Bind(Given(b, "data", IF k = 1 THEN "i1" ELSE "i32",
                  <<Len(mask_other[k])>>, mask_other[k]), LAMBDA b1 :
         LoadOperands(b1, mask_other, k + 1, Append(acc, Last(b1))))

\* _masked_load_lowering_rule(ctx, ptr, *args, args_tree, masked, ...): a
\* ptr that is no pointer is the value itself; otherwise the pointers of
\* the indexed elements are loaded under the mask and with the fallback
\* that the equation has: with a mask alone, other stays None.
_masked_load_lowering_rule(b, ptr, idx, mask_other, array_shape, masked, n_avals_in) ==
  IF TyOf(b, ptr).k # "ptr"
    THEN IF n_avals_in # 1 THEN Ret(Raise(b, "AssertionError"), None) ELSE Ret(b, ptr)
  ELSE
  Bind(_compute_pointers_from_indices(b, ptr, NoBlockInfo, idx, array_shape), LAMBDA p :
    IF masked /\ ~(0 < Len(mask_other) /\ Len(mask_other) <= 2)
      THEN Ret(Raise(p.b, "AssertionError"), None)
    ELSE
    Bind(tl_load(p.b, p.v,
                 IF masked THEN mask_other[1] ELSE None,
                 IF masked /\ Len(mask_other) = 2 THEN mask_other[2] ELSE None),
         LAMBDA b1 : Ret(b1, Last(b1))))

\* What the load operation n of the IR gives lane j when the kernel runs on
\* the memory mem: the element at the lane's address if the lane is
\* active; the fallback if it is not and there is one; else the lane is
\* undefined and holds u[j].
RunLoad(ir, n, mem, u, j) ==
  LET vals == EvalIR(ir, <<0, 0, 0>>)
      o == ir[n]
      at(m) == vals[m][Proj(<<j - 1>>, ir[m].ty.shape)]
      active == o.attr[1] = 0 \/ at(o.args[2]) # 0
  IN IF active THEN mem[at(o.args[1]) + 1]
     ELSE IF o.attr[2] = 1 THEN at(o.args[3])
     ELSE u[j]

\* _load_discharge_rule(in_avals, out_avals, ref, *args, args_tree, masked,
\* ...) for an indexer of Slices: the slice of the Ref's value, and
\* where(mask, out, other) only if both a mask and a fallback are given.
_load_discharge_rule(ref, idx, masked_other, masked) ==
  LET st == idx.indices[1].start
      out == SubSeq(ref, st + 1, st + idx.indices[1].size)
  IN IF masked /\ Len(masked_other) = 2
       THEN [j \in 1..Len(out) |->
               IF masked_other[1][j] # 0 THEN out[j] ELSE masked_other[2][j]]
     ELSE out

LoadInit ==
  /\ \E mem \in [1..2 -> {0, 5, 7}] :
       \E mask \in {Nothing} \cup {Some(m) : m \in [1..2 -> {0, 1}]},
          other \in {Nothing, Some(<<0, 0>>), Some(<<9, 9>>)} :
         l_in = LoadCall(mem, mask, other)
  /\ l_args = NoLoadArgs
  /\ l_pc = "start"
  /\ l_dpc = "none"
  /\ l_low = Ret(NewBuilder, None)
  /\ l_run = <<>>
  /\ l_dis = <<>>
  /\ GridIdle
  /\ AddrIdle
  /\ WalkIdle
  /\ AtomIdle

\* load binds load_p.
BindLoad ==
  /\ l_pc = "start"
  /\ \E r \in {load_bind(l_in)} :
       /\ l_args' = r.args
       /\ l_pc' = IF r.err # NoErr THEN "failed" ELSE "bound"
  /\ UNCHANGED <<l_in, l_dpc, l_low, l_run, l_dis, gridVars, addrVars, walkVars, atomVars>>

\* The walker applies _masked_load_lowering_rule to the bound equation.
LowerLoad ==
  /\ l_pc = "bound"
  /\ \E ops \in {LoadOperands(Given(NewBuilder, "arg", "ptr", <<>>, <<0>>),
                              l_args.mask_other, 1, <<>>)} :
       \E r \in {_masked_load_lowering_rule(ops.b, 1, FullIndexer(<<Len(l_in.mem)>>),
                                            ops.v, <<Len(l_in.mem)>>, l_args.masked,
                                            1 + Len(ops.v))} :
         /\ l_low' = r
         /\ l_pc' = IF r.b.err # NoErr THEN "failed" ELSE "lowered"
  /\ UNCHANGED <<l_in, l_args, l_dpc, l_run, l_dis, gridVars, addrVars, walkVars, atomVars>>

\* The kernel runs: every lane of the lowered load gets its value, an
\* undefined lane any value.
RunKernel ==
  /\ l_pc = "lowered"
  /\ \E u \in [1..Len(l_in.mem) -> Undefined] :
       l_run' = [j \in 1..Len(l_in.mem) |-> RunLoad(l_low.b.ir, l_low.v, l_in.mem, u, j)]
  /\ l_pc' = "ran"
  /\ UNCHANGED <<l_in, l_args, l_dpc, l_low, l_dis, gridVars, addrVars, walkVars, atomVars>>

\* The bound equation is discharged: the reference value of the load.
DischargeLoad ==
  /\ l_pc \in {"bound", "lowered", "ran"}
  /\ l_dpc = "none"
  /\ l_dis' = _load_discharge_rule(l_in.mem, FullIndexer(<<Len(l_in.mem)>>),
                                   l_args.mask_other, l_args.masked)
  /\ l_dpc' = "done"
  /\ UNCHANGED <<l_in, l_args, l_pc, l_low, l_run, gridVars, addrVars, walkVars, atomVars>>

LoadNext == BindLoad \/ LowerLoad \/ RunKernel \/ DischargeLoad

SpecLoad == LoadInit /\ [][LoadNext]_vars

\* The load has a mask and no fallback / a mask and a fallback; the lanes
\* the mask leaves inactive.
MaskOnly == l_args.masked /\ Len(l_args.mask_other) = 1
MaskAndOther == l_args.masked /\ Len(l_args.mask_other) = 2
Inactive == {j \in 1..Len(l_in.mem) : l_args.mask_other[1][j] = 0}

\* C8 as stated: a load with a mask and no fallback gives every inactive
\* lane zero (or fails), in the kernel and in the reference alike; with a
\* fallback the inactive lanes hold the fallback.
C8_Original ==
  /\ (MaskOnly /\ l_pc = "ran") => \A j \in Inactive : l_run[j] = 0
  /\ (MaskOnly /\ l_dpc = "done") => \A j \in Inactive : l_dis[j] = 0
  /\ (MaskOnly /\ l_pc = "ran" /\ l_dpc = "done") => l_run = l_dis
  /\ (MaskAndOther /\ l_pc = "ran") =>
       \A j \in Inactive : l_run[j] = l_args.mask_other[2][j]
  /\ (MaskAndOther /\ l_dpc = "done") =>
       \A j \in Inactive : l_dis[j] = l_args.mask_other[2][j]

\* A load with a mask and no fallback has run and been discharged without
\* failing: the reference gives an inactive lane the memory behind it, not
\* zero, and the kernel gives the lane something else.
C8_Witness ==
  /\ MaskOnly
  /\ l_pc = "ran" /\ l_dpc = "done"
  /\ \E j \in Inactive :
       /\ l_dis[j] = l_in.mem[j] /\ l_dis[j] # 0
       /\ l_run[j] # l_dis[j]

\* ------------------------------------------------------------------
\* The swaps: the state swap and the pallas (masked) swap, lowered for the
\* kernel and discharged for the reference
\* ------------------------------------------------------------------

\* tl.store(ptr, value, mask=mask, _builder=builder): the operands after
\* the pointer and the value are the mask if one is given; the result is
\* the tensor of the store operation, of type void.
tl_store(b, ptr, value, mask) ==
  IF b.err # NoErr THEN b
  ELSE IF TyOf(b, ptr).k # "ptr" THEN Raise(b, "ValueError")
  ELSE IF ~Compatible(TyOf(b, ptr).shape, TyOf(b, value).shape)
    THEN Raise(b, "ShapeMismatch")
  ELSE Emit(b, "store", <<ptr, value>> \o (IF mask = None THEN <<>> ELSE <<mask>>),
            <<>>, ScalarTy("none"))

\* A call x_ref.swap / swap(x_ref, idx, val, mask=mask) on a Ref of one
\* axis whose memory holds mem, idx the whole axis: prim is "swap" for the
\* state primitive sp.swap_p and "masked_swap" for primitives.swap_p.
SwapCall(prim, mem, val, mask) == [prim |-> prim, mem |-> mem, val |-> val, mask |-> mask]

\* swap(x_ref, idx, val, mask=...): the mask, if given, follows the
\* indexer in the operands, and masked says whether there is one.
swap_bind(c) ==
  [masked |-> ~c.mask.none,
   mask_other |-> IF c.mask.none THEN <<>> ELSE <<c.mask.v>>]

\* The operands of a swap rule in the builder when the walker calls it:
\* the pointer (to int32), the value, then the mask the equation has.
SwapOperands(c, args) ==
  Bind(Given(NewBuilder, "arg", "ptr", <<>>, <<0>>), LAMBDA b1 :
    Bind(Given(b1, "data", "i32", <<Len(c.val)>>, c.val), LAMBDA b2 :
      LoadOperands(b2, args.mask_other, 1, <<>>)))

\* _masked_swap_lowering_rule(ctx, ptr, value, *args, args_tree, masked,
\* eviction_policy): the value must have the element type of the Ref
\* (int32 here); the pointers of the indexed elements are stored to under
\* the mask the equation has, and the rule returns what tl.store returns.
_masked_swap_lowering_rule(b, ptr, value, idx, mask_other, array_shape, masked) ==
  IF TyOf(b, value).k # "i32" THEN Ret(Raise(b, "AssertionError"), None)
  ELSE
  Bind(_compute_pointers_from_indices(b, ptr, NoBlockInfo, idx, array_shape), LAMBDA p :
    IF masked /\ Len(mask_other) # 1 THEN Ret(Raise(p.b, "AssertionError"), None)
    ELSE Bind(tl_store(p.b, p.v, value, IF masked THEN mask_other[1] ELSE None),
              LAMBDA b1 : Ret(b1, Last(b1))))

\* The kernel runs the operations 1..n in order on the memory mem: an
\* unmasked load reads the memory as the stores before it left it, a store
\* writes the lanes its mask leaves active.  Gives the memory afterwards
\* and, for every operation, the lanes it loaded (none if it is no load).
RECURSIVE RunMemory(_, _, _, _)
RunMemory(ir, vals, n, mem) ==
  IF n = 0 THEN [mem |-> mem, loaded |-> <<>>]
  ELSE
  LET s == RunMemory(ir, vals, n - 1, mem)
      o == ir[n]
      w == ir[o.args[1]].ty.shape[1]
      at(m, j) == vals[m][Proj(<<j - 1>>, ir[m].ty.shape)]
      active(j) == Len(o.args) < 3 \/ at(o.args[3], j) # 0
      writers(a) == {j \in 1..w : active(j) /\ at(o.args[1], j) + 1 = a}
  IN CASE o.op = "load" ->
            [mem |-> s.mem,
             loaded |-> Append(s.loaded, [j \in 1..w |-> s.mem[at(o.args[1], j) + 1]])]
       [] o.op = "store" ->
            [mem |-> [a \in 1..Len(s.mem) |->
                        IF writers(a) = {} THEN s.mem[a]
                        ELSE at(o.args[2], CHOOSE j \in writers(a) : TRUE)],
             loaded |-> Append(s.loaded, <<>>)]
       [] OTHER -> [mem |-> s.mem, loaded |-> Append(s.loaded, <<>>)]

\* expected_output_shape of _swap_abstract_eval: the shape of the result
\* the swap equation declares.
expected_output_shape(idx_aval) == get_indexer_shape(idx_aval)

\* _swap_discharge_rule(in_avals, out_avals, ref, val, *args, args_tree,
\* masked, eviction_policy) for an indexer of Slices: the new value of the
\* Ref (the value written at the slice, whatever the mask) and out, the
\* slice the Ref held.
_swap_discharge_rule(ref, val, idx) ==
  LET st == idx.indices[1].start
      sz == idx.indices[1].size
  IN [x_new |-> [a \in 1..Len(ref) |->
                   IF st < a /\ a <= st + sz THEN val[a - st] ELSE ref[a]],
      out |-> SubSeq(ref, st + 1, st + sz)]

SwapInit ==
  /\ \E prim \in {"swap", "masked_swap"}, mem \in [1..2 -> {0, 5, 7}],
        val \in [1..2 -> {1, 2}] :
       \E mask \in {Nothing} \cup
                   (IF prim = "swap" THEN {} ELSE {Some(m) : m \in [1..2 -> {0, 1}]}) :
         l_in = SwapCall(prim, mem, val, mask)
  /\ l_args = NoLoadArgs
  /\ l_pc = "start"
  /\ l_dpc = "none"
  /\ l_low = Ret(NewBuilder, None)
  /\ l_run = <<>>
  /\ l_dis = <<>>
  /\ GridIdle
  /\ AddrIdle
  /\ WalkIdle
  /\ AtomIdle

\* swap binds swap_p.
BindSwap ==
  /\ l_pc = "start"
  /\ l_args' = swap_bind(l_in)
  /\ l_pc' = "bound"
  /\ UNCHANGED <<l_in, l_dpc, l_low, l_run, l_dis, gridVars, addrVars, walkVars, atomVars>>

\* The walker applies the rule registered for the primitive of the bound
\* equation: _swap_lowering_rule or _masked_swap_lowering_rule.
LowerSwap ==
  /\ l_pc = "bound"
  /\ \E ops \in {SwapOperands(l_in, l_args)} :
       \E r \in {IF l_in.prim = "swap"
                   THEN _swap_lowering_rule(ops.b, <<NoBlockInfo>>,
                                            <<ShapedArray(<<Len(l_in.mem)>>, "int32"),
                                              ShapedArray(<<Len(l_in.val)>>, "int32")>>,
                                            <<1, 2>>, <<FALSE>>)
                 ELSE _masked_swap_lowering_rule(ops.b, 1, 2,
                                                 FullIndexer(<<Len(l_in.mem)>>), ops.v,
                                                 <<Len(l_in.mem)>>, l_args.masked)} :
         /\ l_low' = r
         /\ l_pc' = IF r.b.err # NoErr THEN "failed" ELSE "lowered"
  /\ UNCHANGED <<l_in, l_args, l_dpc, l_run, l_dis, gridVars, addrVars, walkVars, atomVars>>

\* The kernel runs: the lanes of the tensor the rule returned (none if it
\* is no load) and the memory afterwards.
RunSwap ==
  /\ l_pc = "lowered"
  /\ \E s \in {RunMemory(l_low.b.ir, EvalIR(l_low.b.ir, <<0, 0, 0>>),
                         Len(l_low.b.ir), l_in.mem)} :
       l_run' = <<s.loaded[l_low.v], s.mem>>
  /\ l_pc' = "ran"
  /\ UNCHANGED <<l_in, l_args, l_dpc, l_low, l_dis, gridVars, addrVars, walkVars, atomVars>>

\* The equation of the pallas swap is discharged: the reference result
\* and the new value of the Ref.
DischargeSwap ==
  /\ l_pc \in {"bound", "lowered", "ran"}
  /\ l_in.prim = "masked_swap"
  /\ l_dpc = "none"
  /\ \E d \in {_swap_discharge_rule(l_in.mem, l_in.val, FullIndexer(<<Len(l_in.mem)>>))} :
       l_dis' = <<d.out, d.x_new>>
  /\ l_dpc' = "done"
  /\ UNCHANGED <<l_in, l_args, l_pc, l_low, l_run, gridVars, addrVars, walkVars, atomVars>>

SwapNext == BindSwap \/ LowerSwap \/ RunSwap \/ DischargeSwap

SpecSwap == SwapInit /\ [][SwapNext]_vars

\* The tensor a lowered swap returned, and its type.
SwapResult == l_low.b.ir[l_low.v]

\* The state swap alone: its rule returns a load of the addressed
\* elements emitted before the store, so the kernel gives the values the
\* Ref held and leaves the new value in it.
StateSwapReturnsOld ==
  (l_in.prim = "swap" /\ l_pc = "ran") =>
    /\ SwapResult.op = "load"
    /\ l_run[1] = l_in.mem
    /\ l_run[2] = l_in.val

\* C23 as stated: the lowering of the state swap and of the masked swap
\* returns a value of the shape and dtype the abstract evaluation
\* declares, which holds what the addressed elements held before the
\* store; for the masked swap that is what the discharge rule returns.
C23_Original ==
  /\ l_pc \in {"lowered", "ran"} =>
       /\ SwapResult.ty.k = "i32"
       /\ SwapResult.ty.shape = expected_output_shape(FullIndexer(<<Len(l_in.mem)>>))
  /\ l_pc = "ran" => l_run[1] = l_in.mem
  /\ (l_pc = "ran" /\ l_dpc = "done") => l_run[1] = l_dis[1]

\* A masked swap has been lowered, run and discharged: the discharge rule
\* returns the values the Ref held, the rule returned the store operation
\* itself, of type void, and emitted no load at all.
C23_Witness ==
  /\ l_in.prim = "masked_swap"
  /\ l_pc = "ran" /\ l_dpc = "done"
  /\ l_dis[1] = l_in.mem
  /\ SwapResult.op = "store" /\ SwapResult.ty = ScalarTy("none")
  /\ OpsOf(l_low.b.ir, "load") = {}
  /\ l_run[1] # l_dis[1]

\* ------------------------------------------------------------------
\* _integer_pow_lowering_rule
\* ------------------------------------------------------------------

\* The largest exponent drawn, either sign.
MaxExponent == 3

\* Floating-point values, kept exact: a rational n/d in lowest terms with
\* d > 0, NaN, or the irrational 1/sqrt(n/d).
RECURSIVE Gcd(_, _)
Gcd(m, n) == IF n = 0 THEN m ELSE Gcd(n, m % n)
AbsInt(n) == IF n < 0 THEN -n ELSE n
Rat(n, d) ==
  LET g == Gcd(AbsInt(n), AbsInt(d))
      sg == IF d < 0 THEN -1 ELSE 1
  IN [k |-> "rat", n |-> sg * (n \div g), d |-> sg * (d \div g)]
NaN == [k |-> "nan", n |-> 0, d |-> 1]
RatMul(x, y) == IF x.k = "rat" /\ y.k = "rat" THEN Rat(x.n * y.n, x.d * y.d) ELSE NaN

\* a to the power y for a rational a other than zero and an integer y.
RECURSIVE RatPow(_, _)
RatPow(a, y) ==
  IF y = 0 THEN Rat(1, 1)
  ELSE IF y < 0 THEN RatPow(Rat(a.d, a.n), -y)
  ELSE RatMul(a, RatPow(a, y - 1))

\* The reciprocal of the square root: NaN below zero, a rational if the
\* numerator and the denominator are squares, else irrational.
IsSquare(n) == \E r \in 0..n : r * r = n
SqrtOf(n) == CHOOSE r \in 0..n : r * r = n
Rsqrt(a) ==
  IF a.k # "rat" \/ a.n < 0 THEN NaN
  ELSE IF IsSquare(a.n) /\ IsSquare(a.d) THEN Rat(SqrtOf(a.d), SqrtOf(a.n))
  ELSE [k |-> "rsqrt", n |-> a.n, d |-> a.d]

\* The rule with y == -2 lowered as every other exponent is.
_integer_pow_lowering_rule_General(b, a, y) ==
  Bind(to_tensor(b, y), LAMBDA b1 :
    Bind(Emit(b1, "pow", <<a, Last(b1)>>, <<>>, TyOf(b1, a)), LAMBDA b2 :
      Ret(b2, Last(b2))))

\* _integer_pow_lowering_rule(ctx, a, *, y): a * a, a * (a * a),
\* tl.libdevice.rsqrt(a) for y == -2, else tl.libdevice.pow(a, y).
_integer_pow_lowering_rule(b, a, y) ==
  IF y = 2 THEN Bind(BinOp(b, "mul", a, a), LAMBDA b1 : Ret(b1, Last(b1)))
  ELSE IF y = 3
    THEN Bind(BinOp(b, "mul", a, a), LAMBDA b1 :
           Bind(BinOp(b1, "mul", a, Last(b1)), LAMBDA b2 : Ret(b2, Last(b2))))
  ELSE IF y = -2
    THEN Bind(Emit(b, "rsqrt", <<a>>, <<>>, TyOf(b, a)), LAMBDA b1 : Ret(b1, Last(b1)))
  ELSE Bind(to_tensor(b, y), LAMBDA b1 :
         Bind(Emit(b1, "pow", <<a, Last(b1)>>, <<>>, TyOf(b1, a)), LAMBDA b2 :
           Ret(b2, Last(b2))))

\* The value the scalar operation n of the IR denotes when the kernel
\* runs: the given data, a * b, rsqrt(a), pow(a, y).
RECURSIVE FloatVal(_, _)
FloatVal(ir, n) ==
  LET o == ir[n]
  IN CASE o.op = "data" -> o.attr[1]
       [] o.op = "const" -> Rat(o.attr[1], 1)
       [] o.op = "mul" -> RatMul(FloatVal(ir, o.args[1]), FloatVal(ir, o.args[2]))
       [] o.op = "rsqrt" -> Rsqrt(FloatVal(ir, o.args[1]))
       [] o.op = "pow" -> RatPow(FloatVal(ir, o.args[1]), FloatVal(ir, o.args[2]).n)
       [] OTHER -> NaN

\* An equation integer_pow[y=y] a observed with a holding the value a.
PowCall(a, y) == [a |-> a, y |-> y]
PowBases == {Rat(n, d) : n \in {-4, -1, 1, 2, 4, 9}, d \in {1, 4}}

PowInit ==
  /\ \E a \in PowBases, y \in (-MaxExponent)..MaxExponent : a_in = PowCall(a, y)
  /\ a_pc = "start"
  /\ a_res = Ret(NewBuilder, None)
  /\ GridIdle
  /\ WalkIdle
  /\ AtomIdle
  /\ LoadIdle

\* The walker applies the rule to the equation.
LowerPow ==
  /\ a_pc = "start"
  /\ a_res' = _integer_pow_lowering_rule(
                 Given(NewBuilder, "data", "f32", <<>>, <<a_in.a>>), 1, a_in.y)
  /\ a_pc' = "done"
  /\ UNCHANGED <<a_in, gridVars, walkVars, atomVars, loadVars>>

SpecPow == PowInit /\ [][LowerPow]_vars

\* The value of the expression the rule emitted, and of the expression
\* the general power operation alone would be.
PowResult == FloatVal(a_res.b.ir, a_res.v)
GeneralResult ==
  LET r == _integer_pow_lowering_rule_General(
             Given(NewBuilder, "data", "f32", <<>>, <<a_in.a>>), 1, a_in.y)
  IN FloatVal(r.b.ir, r.v)

\* Every exponent but -2: the expression denotes a to the power y, and
\* the products emitted for 2 and 3 are what the power operation gives.
PowExceptMinusTwo ==
  (a_pc = "done" /\ a_in.y # -2) =>
    /\ PowResult = RatPow(a_in.a, a_in.y)
    /\ PowResult = GeneralResult

\* C24 as stated: for every integer exponent y the expression emitted for
\* integer_pow(a, y) denotes a to the power y, and for y in {2, 3, -2} it
\* has the value the general power operation would give.
C24_Original ==
  a_pc = "done" =>
    /\ PowResult = RatPow(a_in.a, a_in.y)
    /\ a_in.y \in {2, 3, -2} => PowResult = GeneralResult

\* integer_pow(4, -2) has been lowered: the expression is rsqrt(4) = 1/2,
\* while 4 to the power -2, and the power operation, give 1/16.
C24_Witness ==
  /\ a_pc = "done"
  /\ a_in = PowCall(Rat(4, 1), -2)
  /\ a_res.b.ir[a_res.v].op = "rsqrt"
  /\ PowResult = Rat(1, 2)
  /\ RatPow(a_in.a, a_in.y) = Rat(1, 16)
  /\ GeneralResult = Rat(1, 16)

\* ------------------------------------------------------------------
\* NDIndexer.from_indices_shape
\* ------------------------------------------------------------------

\* What the caller may write for an axis: a Python slice(start, stop) with
\* either bound possibly None, a primitives.Slice, a Python int, or an
\* array of the given shape.
NoBound == [none |-> TRUE, v |-> 0]
Bound(n) == [none |-> FALSE, v |-> n]
PythonSlice(start, stop) == [kind |-> "slice", start |-> start, stop |-> stop]
IntegerIndex(v) == [kind |-> "int", shape |-> <<>>, v |-> v]
ArrayIndex(shape) == [kind |-> "array", shape |-> shape]
FullSlice == PythonSlice(NoBound, NoBound)

\* isinstance(i, slice) and i != slice(None)
IsPartialSlice(i) == i.kind = "slice" /\ i # FullSlice

\* Slice.from_slice(slc, size): start 0 if None, stop the extent if None,
\* Slice(start, stop - start); the step is not read.
from_python_slice(slc, size) ==
  LET start == IF slc.start.none THEN 0 ELSE slc.start.v
      stop == IF slc.stop.none THEN size ELSE slc.stop.v
  IN Slice(start, stop - start)

\* The shapes of the integer indexers, one after the other.
RECURSIVE BcastShape(_)
BcastShape(indices) ==
  IF indices = <<>> THEN <<>>
  ELSE (IF Head(indices).kind \in {"int", "array"} THEN Head(indices).shape ELSE <<>>)
         \o BcastShape(Tail(indices))

\* NDIndexer.from_indices_shape(indices, shape) for as many indices as
\* axes: every Python slice is converted by Slice.from_slice first; then
\* a Python slice other than slice(None) among the converted indices is
\* refused; the integer indexers are broadcast to the shape made of all
\* their shapes.
from_indices_shape(indices, shape) ==
  LET converted == [k \in 1..Len(indices) |->
                      IF indices[k].kind = "slice"
                        THEN from_python_slice(indices[k], shape[k])
                      ELSE indices[k]]
  IN IF \E k \in 1..Len(converted) : IsPartialSlice(converted[k])
       THEN [err |-> "NotImplementedError", v |-> <<>>]
     ELSE IF Len(converted) # Len(shape) THEN [err |-> "ValueError", v |-> <<>>]
     ELSE [err |-> NoErr, v |-> NDIndexer(converted, shape, BcastShape(converted))]

\* The indices drawn for an axis of extent 4.
AxisIndices ==
  <<FullSlice, PythonSlice(Bound(1), NoBound), PythonSlice(NoBound, Bound(3)),
    PythonSlice(Bound(1), Bound(3)), PythonSlice(Bound(0), Bound(4)),
    Slice(0, 2), Slice(1, 2), IntegerIndex(0), IntegerIndex(1), ArrayIndex(<<2>>)>>

IndexerInit ==
  /\ \E r \in 1..2 : \E c \in [1..r -> 1..Len(AxisIndices)] :
       a_in = [indices |-> [k \in 1..r |-> AxisIndices[c[k]]],
               shape |-> [k \in 1..r |-> 4]]
  /\ a_pc = "start"
  /\ a_res = Ret(NewBuilder, None)
  /\ GridIdle
  /\ WalkIdle
  /\ AtomIdle
  /\ LoadIdle

\* load, swap and atomic_rmw make the indexer of their call.
FromIndicesShape ==
  /\ a_pc = "start"
  /\ a_res' = from_indices_shape(a_in.indices, a_in.shape)
  /\ a_pc' = "done"
  /\ UNCHANGED <<a_in, gridVars, walkVars, atomVars, loadVars>>

SpecIndexer == IndexerInit /\ [][FromIndicesShape]_vars

\* The axes the caller indexed with a Python slice other than slice(None).
PartialAxes == {k \in 1..Len(a_in.indices) : IsPartialSlice(a_in.indices[k])}

\* What is accepted is an indexer of Slices and integer indexers over the
\* given shape: a Python slice has become the Slice of its range.
IndexerMade ==
  (a_pc = "done" /\ a_res.err = NoErr) =>
    /\ a_res.v.shape = a_in.shape
    /\ \A k \in 1..Len(a_in.indices) :
         IF a_in.indices[k].kind = "slice"
           THEN a_res.v.indices[k] = from_python_slice(a_in.indices[k], a_in.shape[k])
         ELSE a_res.v.indices[k] = a_in.indices[k]

\* C25 as stated: from_indices_shape refuses with a not-implemented error
\* every index tuple holding a Python slice other than slice(None).
C25_Original ==
  (a_pc = "done" /\ PartialAxes # {}) => a_res.err = "NotImplementedError"

\* The index tuple (slice(1, 3),) on a Ref of four elements has been
\* processed: no error, and the indexer holds Slice(1, 2).
C25_Witness ==
  /\ a_pc = "done"
  /\ a_in.indices = <<PythonSlice(Bound(1), Bound(3))>>
  /\ a_res.err = NoErr
  /\ a_res.v.indices = <<Slice(1, 2)>>

\* ------------------------------------------------------------------
\* The for rule and the insertion point
\* ------------------------------------------------------------------

\* The loops whose rule has returned: the loop block and the for
\* operation of each.
LoopsDone(b) == {b.merged[k] : k \in 1..Len(b.merged)}

\* The operations of a name emitted into a block.
OpsIn(b, name, blk) == {n \in OpsOf(b.ir, name) : b.ir[n].blk = blk}

\* A step in which a for rule returns: m is its loop.  The insertion
\* point is the block the for operation was emitted into, which is not
\* the loop block; the carried initial values of the for operation, its
\* results and the values of the one yield of the body (none, and no
\* yield, if nothing is carried) are as many.
ForRuleReturned(m) ==
  LET f == m.for_op
      carried == Len(bld'.ir[f].args) - 3
      results == {n \in OpsOf(bld'.ir, "for_result") : bld'.ir[n].args = <<f>>}
      yields == OpsIn(bld', "yield", m.blk)
  IN /\ bld'.blk = bld'.ir[f].blk
     /\ bld'.blk # m.blk
     /\ Cardinality(results) = carried
     /\ {bld'.ir[n].attr[1] : n \in results} = 0..(carried - 1)
     /\ IF carried = 0 THEN yields = {}
        ELSE /\ Cardinality(yields) = 1
             /\ \A y \in yields : Len(bld'.ir[y].args) = carried

\* Whatever a step emits goes to the insertion point, which is in no loop
\* whose rule has returned, and comes after the for operation of every
\* such loop.
EmittedOutsideLoops ==
  \A n \in (Len(bld.ir) + 1)..Len(bld'.ir) :
    \A m \in LoopsDone(bld) :
      /\ bld'.ir[n].blk # m.blk
      /\ n > m.for_op

C26_Step ==
  /\ Len(bld'.merged) > Len(bld.merged) =>
       ForRuleReturned(bld'.merged[Len(bld'.merged)])
  /\ EmittedOutsideLoops

\* C26: when the for rule returns, the insertion point is the end of the
\* block that was active when the rule was entered (the block that holds
\* the for operation); every operation emitted afterwards comes after the
\* for operation and in no finished loop body; and the body yields as
\* many values as the loop carries initial values and has results.
C26_InsertionPoint == [][C26_Step]_vars

\* A loop that carries a value has been lowered, with a loop inside whose
\* for operation is in the body of the first and is followed there by a
\* store; the write of the outer loop's result has been lowered as well:
\* its store is in the block of the outer for operation, after the yield.
C26_Witness ==
  \E m \in LoopsDone(bld) :
    /\ Len(bld.ir[m.for_op].args) > 3
    /\ \E i \in LoopsDone(bld) :
         /\ bld.ir[i.for_op].blk = m.blk
         /\ \E n \in OpsIn(bld, "store", m.blk) : n > i.for_op
    /\ \E y \in OpsIn(bld, "yield", m.blk) :
         \E n \in (y + 1)..Len(bld.ir) :
           /\ bld.ir[n].op = "store"
           /\ bld.ir[bld.ir[n].args[2]].op = "for_result"
           /\ bld.ir[n].blk = bld.ir[m.for_op].blk

\* ------------------------------------------------------------------
\* dot and _dot_general_lowering
\* ------------------------------------------------------------------

\* int(flag)
IntOf(flag) == IF flag THEN 1 ELSE 0

\* dot with the contracting axis of the left operand taken as that of the
\* right one is.
dot_LhsAsRhs(trans_a, trans_b, allow_tf32) ==
  [dimension_numbers |-> << << <<IntOf(trans_a)>>, <<IntOf(trans_b)>> >>, << <<>>, <<>> >> >>,
   precision |-> IF allow_tf32 THEN "HIGH" ELSE "HIGHEST"]

\* dot(a, b, trans_a, trans_b, allow_tf32): the parameters it binds
\* dot_general with: the contracting axis of the left operand is
\* int(not trans_a), that of the right operand int(trans_b); the precision
\* is HIGH if allow_tf32 else HIGHEST.
dot(trans_a, trans_b, allow_tf32) ==
  [dimension_numbers |-> << << <<IntOf(~trans_a)>>, <<IntOf(trans_b)>> >>, << <<>>, <<>> >> >>,
   precision |-> IF allow_tf32 THEN "HIGH" ELSE "HIGHEST"]

\* tl.trans(a, _builder=builder): the two axes exchanged.
tl_trans(b, a) ==
  IF b.err # NoErr THEN b
  ELSE IF Len(TyOf(b, a).shape) # 2 THEN Raise(b, "ValueError")
  ELSE Emit(b, "trans", <<a>>, <<>>,
            [k |-> TyOf(b, a).k, shape |-> <<TyOf(b, a).shape[2], TyOf(b, a).shape[1]>>])

\* tl.dot(a, b, allow_tf32=allow_tf32, _builder=builder): the operands
\* are matrices whose inner extents agree.
tl_dot(b, x, y, allow_tf32) ==
  IF b.err # NoErr THEN b
  ELSE IF Len(TyOf(b, x).shape) # 2 \/ Len(TyOf(b, y).shape) # 2
    THEN Raise(b, "AssertionError")
  ELSE IF TyOf(b, x).shape[2] # TyOf(b, y).shape[1] THEN Raise(b, "AssertionError")
  ELSE Emit(b, "dot", <<x, y>>, <<IntOf(allow_tf32)>>,
            [k |-> TyOf(b, x).k, shape |-> <<TyOf(b, x).shape[1], TyOf(b, y).shape[2]>>])

\* _dot_general_lowering(ctx, a, b, *, dimension_numbers, precision,
\* preferred_element_type)
_dot_general_lowering(b, x, y, dimension_numbers, precision) ==
  LET contract_dims == dimension_numbers[1]
      batch_dims == dimension_numbers[2]
  IN IF batch_dims # << <<>>, <<>> >> THEN Ret(Raise(b, "AssertionError"), None)
     ELSE IF Len(contract_dims[1]) # 1 \/ Len(contract_dims[2]) # 1
       THEN Ret(Raise(b, "ValueError"), None)
     ELSE
     LET trans_a == contract_dims[1][1] = 0
         trans_b == contract_dims[2][1] = 1
         allow_tf32 == precision = "HIGH" \/ precision = "DEFAULT"
     IN Bind(IF trans_a THEN tl_trans(b, x) ELSE b, LAMBDA b1 :
        Bind(IF trans_b THEN tl_trans(b1, y) ELSE b1, LAMBDA b2 :
        Bind(tl_dot(b2, IF trans_a THEN Last(b1) ELSE x,
                    IF trans_b THEN Last(b2) ELSE y, allow_tf32), LAMBDA b3 :
          Ret(b3, Last(b3)))))

\* A call dot(a, b, trans_a, trans_b, allow_tf32) of an m x k by a k x n
\* product: a operand is stored transposed if its flag is set.
DotCall(trans_a, trans_b, allow_tf32, m, k, n) ==
  [trans_a |-> trans_a, trans_b |-> trans_b, allow_tf32 |-> allow_tf32,
   a_shape |-> IF trans_a THEN <<k, m>> ELSE <<m, k>>,
   b_shape |-> IF trans_b THEN <<n, k>> ELSE <<k, n>>,
   out_shape |-> <<m, n>>]

\* The extents of the drawn matrices.
DotExtents == {16, 32}

DotInit ==
  /\ \E trans_a \in BOOLEAN, trans_b \in BOOLEAN, allow_tf32 \in BOOLEAN :
       \E m \in DotExtents, k \in DotExtents, n \in DotExtents :
         a_in = DotCall(trans_a, trans_b, allow_tf32, m, k, n)
  /\ a_pc = "start"
  /\ a_res = Ret(NewBuilder, None)
  /\ GridIdle
  /\ WalkIdle
  /\ AtomIdle
  /\ LoadIdle

\* The operands of the rule in the builder: the two blocks.
DotOperands(c) ==
  Emit(Emit(NewBuilder, "data", <<>>, <<>>, BlockTy("f32", c.a_shape)),
       "data", <<>>, <<>>, BlockTy("f32", c.b_shape))

\* dot binds dot_general and the walker applies the rule to the equation.
LowerDot ==
  /\ a_pc = "start"
  /\ \E params \in {dot(a_in.trans_a, a_in.trans_b, a_in.allow_tf32)} :
       a_res' = _dot_general_lowering(DotOperands(a_in), 1, 2,
                                      params.dimension_numbers, params.precision)
  /\ a_pc' = "done"
  /\ UNCHANGED <<a_in, gridVars, walkVars, atomVars, loadVars>>

SpecDot == DotInit /\ [][LowerDot]_vars

\* The transpositions emitted of an operand, and the dot operation.
TransOf(v) == {n \in OpsOf(a_res.b.ir, "trans") : a_res.b.ir[n].args = <<v>>}
DotOp == a_res.b.ir[a_res.v]

\* C27: for every combination of trans_a, trans_b and allow_tf32 the rule
\* recovers the three flags from what dot binds: the left operand of the
\* dot operation is the transposition of a iff trans_a and a itself
\* otherwise, the right operand the transposition of b iff trans_b, and
\* the operation allows TF32 iff allow_tf32; the product is m x n.
C27_FlagsDecoded ==
  a_pc = "done" =>
    /\ a_res.b.err = NoErr
    /\ DotOp.op = "dot"
    /\ Cardinality(TransOf(1)) = IntOf(a_in.trans_a)
    /\ Cardinality(TransOf(2)) = IntOf(a_in.trans_b)
    /\ DotOp.args[1] \in (IF a_in.trans_a THEN TransOf(1) ELSE {1})
    /\ DotOp.args[2] \in (IF a_in.trans_b THEN TransOf(2) ELSE {2})
    /\ DotOp.attr = <<IntOf(a_in.allow_tf32)>>
    /\ DotOp.ty.shape = a_in.out_shape

\* dot(a, b, trans_a=True, trans_b=False, allow_tf32=False) of a 32 x 16
\* left operand has been lowered: one transposition, of a, and a dot
\* without TF32 on it and b.
C27_Witness ==
  /\ a_pc = "done"
  /\ a_in.trans_a /\ ~a_in.trans_b /\ ~a_in.allow_tf32
  /\ a_in.a_shape = <<32, 16>>
  /\ OpsOf(a_res.b.ir, "trans") = {3}
  /\ DotOp.args = <<3, 2>>
  /\ DotOp.attr = <<0>>
  /\ DotOp.ty.shape[1] = 16

====
